---- MODULE Spec2Model ----
(***************************************************************************)
(* Model of the chat orchestration hook useChat (src/hooks/useChat.ts,     *)
(* kept in src/unnamed/part_010 lines 82-417) together with the parts of   *)
(* the React runtime and of the gateway SDK it talks to.                   *)
(*                                                                         *)
(* The hook's refs and useState cells are variables.  A useState cell      *)
(* holds the value of the latest setState call; `deps` are the effect      *)
(* dependencies of the last render, and an effect scheduled by a render    *)
(* is a closure over that render's values.  React runs the passive effects *)
(* of a render later, in one go (FlushEffects).  The                       *)
(* SDK's client and engine objects are environment: they emit state        *)
(* notifications and update/error events at any time, to whatever          *)
(* listeners are still subscribed.                                         *)
(***************************************************************************)
EXTENDS Integers, Sequences, FiniteSets, TLC

\* ---- bounds ----
MaxClients == 2
MaxEngines == 2
MaxMsgs == 1
MaxReconnects == 1
MaxSends == 1
MaxAtts == 2

\* ---- value domains ----
None == 0
NoError == "none"
ConnectError == "connect failed"
EngineFailure == "engine error"
EmptyUrl == ""
Configs == {<<EmptyUrl, "">>, <<"wss://a", "">>, <<"wss://a", "tok">>}
DefaultSessionKey == "main"
SessionKeys == {DefaultSessionKey, "alt"}
ConnectionState == {"disconnected", "connecting", "connected", "reconnecting"}
\* A field that is undefined in JavaScript, and the responses of sessionsList:
\* response.sessions is absent or a list of records, whose friendlyId ("" =
\* none) and label may be missing.
UndefinedField == "undefined"
ServerResponses ==
  {[sessions |-> <<>>],
   [sessions |-> << <<>> >>],
   [sessions |-> << <<[key |-> "alt", friendlyId |-> "", label |-> UndefinedField]>> >>],
   [sessions |-> << <<[key |-> "main", friendlyId |-> "Main", label |-> "L"],
                      [key |-> "alt", friendlyId |-> "", label |-> UndefinedField]>> >>]}
NoCache == <<>>
NotConnected == "Not connected"
SendFailure == "send failed"
Undefined == <<>>
NothingHanded == <<>>

\* ---- src/src/screens/ChatScreen.tsx: the smart-title service ----
\* A text is the sequence of its characters.
Space == " "
Newline == "\n"
Ellipsis == <<".", ".", ".">>
NewChat ==
  <<"N", "e", "w", " ", "C", "h", "a", "t">>
TextHi ==
  <<"h", "i">>
TextQuestion ==
  <<"w", "h", "a", "t", " ", "i", "s", " ", "t", "l", "a", "?">>
TextBlank ==
  <<" ", "\n">>
TextEssay ==
  <<"p", "l", "e", "a", "s", "e", " ", "e", "x", "p", "l", "a", "i", "n",
    " ", "h", "o", "w", " ", "t", "h", "e", " ", "t", "e", "m", "p", "o",
    "r", "a", "l", "\n", "l", "o", "g", "i", "c", " ", " ", "o", "f", " ",
    "a", "c", "t", "i", "o", "n", "s", " ", "w", "o", "r", "k", "s">>
MinAssistantText == 10
TitleLimit == 40
WordCut == 20

\* UIMessage: a role and the blocks of its content
TextBlock(text) == [type |-> "text", text |-> text]
ImageBlock == [type |-> "image", text |-> <<>>]
UIMessage(role, content) == [role |-> role, content |-> content]
MessageLists ==
  {<<>>,
   <<UIMessage("user", <<TextBlock(TextHi)>>)>>,
   <<UIMessage("assistant", <<TextBlock(TextQuestion)>>)>>,
   <<UIMessage("user", <<TextBlock(TextQuestion)>>),
     UIMessage("assistant", <<TextBlock(TextHi)>>)>>,
   <<UIMessage("user", <<TextBlock(TextQuestion)>>),
     UIMessage("assistant", <<TextBlock(TextQuestion)>>)>>,
   <<UIMessage("user", <<ImageBlock, TextBlock(TextHi), TextBlock(TextHi)>>),
     UIMessage("assistant", <<TextBlock(TextHi), TextBlock(TextQuestion)>>)>>,
   <<UIMessage("user", <<TextBlock(TextBlank)>>),
     UIMessage("assistant", <<TextBlock(TextEssay)>>)>>,
   <<UIMessage("user", <<TextBlock(TextEssay)>>),
     UIMessage("assistant", <<TextBlock(TextEssay)>>),
     UIMessage("user", <<TextBlock(TextHi)>>)>>}

\* existingTitle: undefined, or a title as the sequence of its parts
ChatPrefix == "chat-"
TitleKeys == {"main", "alt"}
ExistingTitles ==
  {<<>>, <<"New Chat">>, <<ChatPrefix, "1">>, <<"Holiday plans">>} \cup
  {<<k>> : k \in TitleKeys}

\* null, for a title; a title that is there is <<the title>>
NoTitle == <<>>
NoTitles == <<>>
TitleCall(fn, sessionKey, needed, title) ==
  [fn |-> fn, sessionKey |-> sessionKey, needed |-> needed, title |-> title]

\* storage.ts: the keys and values of the storage.  A value passed to set is
\* a string, a number or a boolean; text is what String(value) makes of it.
StorageKeyNames == {"last_session_key", "onboarding_complete"}
JSValue(type, text) == [type |-> type, text |-> text]
SetValues == {JSValue("string", "alt"), JSValue("boolean", "true")}
PersistedValue == "main"
Absent == <<>>
Stored(text) == <<text>>
MaxWrites == 2

\* An operation handed to AsyncStorage, and the state of the startup load.
NativeOp(op, key, value, keys) ==
  [op |-> op, key |-> key, value |-> value, keys |-> keys]
GetAllKeysOp == NativeOp("getAllKeys", "", "", {})
NoPairs == [k \in StorageKeyNames |-> Absent]
StartupLoad(step, keys, pairs) == [step |-> step, keys |-> keys, pairs |-> pairs]
NothingPersisted == [k \in StorageKeyNames |-> Absent]
PersistedStores == [StorageKeyNames -> {Absent, Stored(PersistedValue)}]

\* GlobalSearchModal: the queries typed, the sessions passed to the modal and
\* the histories chatHistory answers with.
TextTLA == <<"T", "L", "A">>
SearchQueries == {<<>>, <<"t">>, <<"t", "l">>, <<"h", "i">>}
MinQuery == 2
MaxSearches == 2
SearchSessions ==
  <<[key |-> "main", friendlyId |-> "Main", label |-> UndefinedField],
    [key |-> "alt", friendlyId |-> "alt", label |-> "L"]>>
HistoryOf(sessionKey) ==
  IF sessionKey = "main"
    THEN <<UIMessage("user", <<TextBlock(TextQuestion)>>),
           UIMessage("assistant", <<ImageBlock>>),
           UIMessage("assistant", <<TextBlock(TextHi)>>)>>
    ELSE <<UIMessage("user", <<TextBlock(TextHi)>>),
           UIMessage("assistant", <<TextBlock(TextTLA)>>),
           UIMessage("user", <<TextBlock(TextHi), TextBlock(TextQuestion)>>)>>
NoTimer == <<>>
Timer(closureQuery) == <<closureQuery>>
Search(searchQuery) ==
  [query |-> searchQuery, aborted |-> FALSE, awaiting |-> 0, sectionsMap |-> <<>>]

VARIABLES
  mounted,            \* the component using the hook is mounted
  deps,               \* effect dependencies as of the last render
  pendingEffects,     \* closures of the effects scheduled and not yet run
  cleanupOf,          \* client whose connect-effect cleanup is registered
  closureSessionKey,  \* currentSessionKey captured by the state listener
  clientRef, engineRef, unsubChatRef,
  connectionState, isStreaming, error, messages, sessions, currentSessionKey,
  clients,            \* GatewayClient objects constructed so far
  engines,            \* ChatEngine objects constructed so far
  lastSessionKey,     \* persisted last active session key ("" = not stored)
  sessionsCache,      \* persisted session list cache: <<>> or <<its JSON text>>
  timers,             \* setTimeout callbacks of send scheduled and not yet run
  midUpdate,          \* the update listener has run up to setMessages: <<>> or
                      \* <<engine, its message count, its streaming flag>>
  handed,             \* the latest engine.send call: <<>> or <<engine,
                      \* attachments, the attachmentsInput they were made of>>
  titledSessions,     \* smartTitles: the module's Set of session keys
  smartTitles,        \* stored smart titles: <<>> or <<the members of the JSON
                      \* object, each <<session key, title>> >>
  titleCall,          \* the last call of the smart-title service
  requested,          \* the keys switchSession was called with since the
                      \* render whose effects ran last
  smartTitle,         \* EnhancedChatScreen: useState smartTitle
  titleDeps,          \* dependencies of the screen's smart-title effect as of
                      \* the last render
  screenEffects,      \* closures of the screen's effects scheduled, not run
  syncCache,          \* storage.ts: the in-memory cache, key -> Absent or
                      \* Stored(text)
  cacheLoaded,        \* storage.ts: the startup load has ended
  asyncStorage,       \* what AsyncStorage holds on the device
  nativeQueue,        \* AsyncStorage operations issued and not yet executed
  startupLoad,        \* the startup load: its step and the results delivered
  lastWrite,          \* per key: Stored(text) of the last set if no delete
                      \* followed it, else Absent
  writes,             \* number of set and delete calls so far
  visible,            \* GlobalSearchModal: the visible prop
  query,              \* GlobalSearchModal: useState query
  isSearching,        \* GlobalSearchModal: useState isSearching
  results,            \* GlobalSearchModal: useState results
  searchAbortRef,     \* GlobalSearchModal: the search whose controller the
                      \* ref holds, or None
  historyCache,       \* keys of historyCacheRef
  searchTimer,        \* the debounce timer: NoTimer or Timer(its query)
  searches,           \* the performSearch calls that passed the guard: query,
                      \* controller's aborted flag, index of the session
                      \* whose history is awaited (0 = returned), sectionsMap
  resultsOf,          \* the search whose sections results holds, or None
  lastOp              \* the last step in which code of the hook or React ran

vars == <<mounted, deps, pendingEffects, cleanupOf, closureSessionKey,
          clientRef, engineRef, unsubChatRef, connectionState, isStreaming,
          error, messages, sessions, currentSessionKey, clients, engines,
          lastSessionKey, sessionsCache, timers, midUpdate, handed,
          titledSessions, smartTitles, titleCall, requested,
          smartTitle, titleDeps, screenEffects, syncCache, cacheLoaded,
          asyncStorage, nativeQueue, startupLoad, lastWrite, writes,
          visible, query, isSearching, results, searchAbortRef, historyCache,
          searchTimer, searches, resultsOf, lastOp>>

hookState == <<connectionState, isStreaming, error, messages, sessions,
               currentSessionKey>>

\* The mutable state as one record, so that a handler's statements compose.
\* overflow marks a step that would exceed a bound; it is never committed.
\* thrown is the message of the error the running function throws ("" = none).
\* thens are the values of the promises resolved in this step whose .then
\* callbacks are still to run.
Cur ==
  [mounted |-> mounted, deps |-> deps, pendingEffects |-> pendingEffects,
   cleanupOf |-> cleanupOf, closureSessionKey |-> closureSessionKey,
   clientRef |-> clientRef, engineRef |-> engineRef, unsubChatRef |-> unsubChatRef,
   connectionState |-> connectionState, isStreaming |-> isStreaming,
   error |-> error, messages |-> messages, sessions |-> sessions,
   currentSessionKey |-> currentSessionKey, clients |-> clients,
   engines |-> engines, lastSessionKey |-> lastSessionKey,
   sessionsCache |-> sessionsCache, timers |-> timers, handed |-> handed,
   midUpdate |-> midUpdate, titledSessions |-> titledSessions,
   smartTitles |-> smartTitles, titleCall |-> titleCall,
   requested |-> requested, smartTitle |-> smartTitle,
   titleDeps |-> titleDeps, screenEffects |-> screenEffects,
   syncCache |-> syncCache, cacheLoaded |-> cacheLoaded,
   asyncStorage |-> asyncStorage, nativeQueue |-> nativeQueue,
   startupLoad |-> startupLoad, lastWrite |-> lastWrite, writes |-> writes,
   visible |-> visible, query |-> query, isSearching |-> isSearching,
   results |-> results, searchAbortRef |-> searchAbortRef,
   historyCache |-> historyCache, searchTimer |-> searchTimer,
   searches |-> searches, resultsOf |-> resultsOf,
   thens |-> <<>>,
   thrown |-> "", overflow |-> FALSE]

Commit(S, op) ==
  /\ ~S.overflow
  /\ mounted' = S.mounted
  /\ deps' = S.deps
  /\ pendingEffects' = S.pendingEffects
  /\ cleanupOf' = S.cleanupOf
  /\ closureSessionKey' = S.closureSessionKey
  /\ clientRef' = S.clientRef
  /\ engineRef' = S.engineRef
  /\ unsubChatRef' = S.unsubChatRef
  /\ connectionState' = S.connectionState
  /\ isStreaming' = S.isStreaming
  /\ error' = S.error
  /\ messages' = S.messages
  /\ sessions' = S.sessions
  /\ currentSessionKey' = S.currentSessionKey
  /\ clients' = S.clients
  /\ engines' = S.engines
  /\ lastSessionKey' = S.lastSessionKey
  /\ sessionsCache' = S.sessionsCache
  /\ timers' = S.timers
  /\ handed' = S.handed
  /\ midUpdate' = S.midUpdate
  /\ titledSessions' = S.titledSessions
  /\ smartTitles' = S.smartTitles
  /\ titleCall' = S.titleCall
  /\ requested' = S.requested
  /\ smartTitle' = S.smartTitle
  /\ titleDeps' = S.titleDeps
  /\ screenEffects' = S.screenEffects
  /\ syncCache' = S.syncCache
  /\ cacheLoaded' = S.cacheLoaded
  /\ asyncStorage' = S.asyncStorage
  /\ nativeQueue' = S.nativeQueue
  /\ startupLoad' = S.startupLoad
  /\ lastWrite' = S.lastWrite
  /\ writes' = S.writes
  /\ visible' = S.visible
  /\ query' = S.query
  /\ isSearching' = S.isSearching
  /\ results' = S.results
  /\ searchAbortRef' = S.searchAbortRef
  /\ historyCache' = S.historyCache
  /\ searchTimer' = S.searchTimer
  /\ searches' = S.searches
  /\ resultsOf' = S.resultsOf
  /\ lastOp' = [op EXCEPT !.made = IF Len(S.engines) > Len(engines)
                                     THEN Len(S.engines) ELSE None]

\* A useState setter: the cell takes the value; React drops it after unmount.
SetState(S, cell, v) == IF S.mounted THEN [S EXCEPT ![cell] = v] ELSE S

\* ---- SDK objects ----
NewClient ==
  [stateSubs |-> 0, stateUnsubs |-> 0, disconnectCalled |-> FALSE,
   connecting |-> 0, reconnecting |-> 0, fetching |-> FALSE]

\* destroyedBy, subsAtDestroy and subsAtBirth record the history of the object:
\* which code destroyed it, whether it had listeners of the hook then, and
\* whether another engine had listeners of the hook when it was constructed.
NewEngine(client, sessKey, subsAtBirth) ==
  [client |-> client, sessionKey |-> sessKey, destroyed |-> FALSE,
   destroyedBy |-> "", subsAtDestroy |-> FALSE, subsAtBirth |-> subsAtBirth,
   updSubs |-> 0, updUnsubs |-> 0, errSubs |-> 0, errUnsubs |-> 0,
   sending |-> 0]

\* engine.messages when the engine e holds n messages: its ordered list
EngineMessages(e, n) ==
  IF n = 0 THEN <<>> ELSE [i \in 1..n |-> <<e, i>>]

StateListening(S, c) == S.clients[c].stateSubs > S.clients[c].stateUnsubs
UpdListening(S, e) == S.engines[e].updSubs > S.engines[e].updUnsubs
ErrListening(S, e) == S.engines[e].errSubs > S.engines[e].errUnsubs

\* ---- src/unnamed/part_010: useChat ----

\* faulty variant: the combined unsubscribe forgets unsubError()
callUnsubUpdateOnly(S, e) ==
  [S EXCEPT !.engines[e].updUnsubs = @ + 1]

\* unsubChatRef.current(): unsubUpdate(); unsubError()   (lines 215-218)
callUnsubChat(S, e) ==
  [S EXCEPT !.engines[e].updUnsubs = @ + 1, !.engines[e].errUnsubs = @ + 1]

\* faulty variant: the reference is dropped without calling it
unsubChatForgets(S) == [S EXCEPT !.unsubChatRef = None]

\* if (unsubChatRef.current) { unsubChatRef.current(); unsubChatRef.current = null }
unsubChat(S) ==
  IF S.unsubChatRef # None
    THEN [callUnsubChat(S, S.unsubChatRef) EXCEPT !.unsubChatRef = None]
    ELSE S

\* faulty variant: the reference is dropped without destroy()
releaseEngineOnly(S, why) == [S EXCEPT !.engineRef = None]

\* if (engineRef.current) { engineRef.current.destroy(); engineRef.current = null }
destroyEngine(S, why) ==
  IF S.engineRef # None
    THEN [S EXCEPT !.engines[S.engineRef].destroyed = TRUE,
                   !.engines[S.engineRef].destroyedBy = why,
                   !.engines[S.engineRef].subsAtDestroy =
                       UpdListening(S, S.engineRef) \/ ErrListening(S, S.engineRef),
                   !.engineRef = None]
    ELSE S

\* client.disconnect(): synchronous; whether the SDK calls the state
\* listeners from inside it is the caller's choice (see reconnect).
disconnect(S, c) == [S EXCEPT !.clients[c].disconnectCalled = TRUE]

\* faulty variant: the query is sent whatever the client answers to isConnected
fetchSessionsUnguarded(S, client, isConnected) ==
  LET c == IF client # None THEN client ELSE S.clientRef IN
  IF c = None
    THEN S
    ELSE [S EXCEPT !.clients[c].fetching = TRUE]

\* fetchSessions up to the await: the guard and the sessionsList query;
\* isConnected is what the client answers to c.isConnected at this moment.
fetchSessions(S, client, isConnected) ==
  LET c == IF client # None THEN client ELSE S.clientRef IN
  IF c = None \/ ~isConnected
    THEN S
    ELSE [S EXCEPT !.clients[c].fetching = TRUE]

\* faulty variant: setMessages([]) and setIsStreaming(false) are missing
createEngineNoReset(S, client, sessKey) ==
  LET S1 == destroyEngine(unsubChat(S), "createEngine")
      e  == Len(S1.engines) + 1
      S2 == [S1 EXCEPT !.engines = Append(@, NewEngine(client, sessKey,
                           \E x \in DOMAIN S1.engines :
                              UpdListening(S1, x) \/ ErrListening(S1, x))),
                       !.engineRef = e,
                       !.overflow = @ \/ Len(S1.engines) >= MaxEngines]
  IN [S2 EXCEPT !.engines[e].updSubs = @ + 1,
                !.engines[e].errSubs = @ + 1,
                !.unsubChatRef = e]

\* createEngine(client, sessKey)
createEngine(S, client, sessKey) ==
  LET S1 == destroyEngine(unsubChat(S), "createEngine")
      e  == Len(S1.engines) + 1
      S2 == [S1 EXCEPT !.engines = Append(@, NewEngine(client, sessKey,
                           \E x \in DOMAIN S1.engines :
                              UpdListening(S1, x) \/ ErrListening(S1, x))),
                       !.engineRef = e,
                       !.overflow = @ \/ Len(S1.engines) >= MaxEngines]
      S3 == SetState(SetState(S2, "messages", <<>>), "isStreaming", FALSE)
  IN [S3 EXCEPT !.engines[e].updSubs = @ + 1,
                !.engines[e].errSubs = @ + 1,
                !.unsubChatRef = e]

\* the listener engine.on('update', ...), run when the engine e holds n
\* messages and its streaming flag is streaming
onEngineUpdate(S, e, n, streaming) ==
  SetState(SetState(S, "messages", EngineMessages(e, n)),
           "isStreaming", streaming)

\* faulty variant: an engine error also drops the messages and the streaming flag
onEngineErrorResets(S, e, err) ==
  SetState(SetState(SetState(S, "error", err), "messages", <<>>),
           "isStreaming", FALSE)

\* the listener engine.on('error', ...)
onEngineError(S, e, err) == SetState(S, "error", err)

\* faulty variant: the disconnected branch also disconnects and drops the client
onConnectionStateChangeDropsClient(S, c, state) ==
  LET S1 == SetState(S, "connectionState", state) IN
  IF state = "connected" THEN
    LET S2 == SetState(S1, "error", NoError)
        S3 == IF S2.engineRef = None /\ S2.clientRef # None
                THEN createEngine(S2, S2.clientRef, S2.closureSessionKey)
                ELSE S2
    IN fetchSessions(S3, c, TRUE)
  ELSE IF state = "disconnected"
    THEN LET S2 == destroyEngine(S1, "disconnected") IN
         IF S2.clientRef # None
           THEN [disconnect(S2, S2.clientRef) EXCEPT !.clientRef = None]
           ELSE S2
  ELSE S1

\* faulty variant: the two setState calls of the update listener are swapped
onEngineUpdateFirstSwapped(S, e, n, streaming) ==
  [SetState(S, "isStreaming", streaming) EXCEPT !.midUpdate = <<e, n, streaming>>]

\* the update listener in two parts, for a React that does not batch the
\* setState calls of an SDK callback and renders after each: up to
\* setMessages([...engine.messages]) ...
onEngineUpdateFirst(S, e, n, streaming) ==
  [SetState(S, "messages", EngineMessages(e, n)) EXCEPT
     !.midUpdate = <<e, n, streaming>>]

\* ... and setIsStreaming(engine.isStreaming)
onEngineUpdateRest(S) ==
  [SetState(S, "isStreaming", S.midUpdate[3]) EXCEPT !.midUpdate = <<>>]

\* the listener client.onConnectionStateChange(...) of the client c
onConnectionStateChange(S, c, state) ==
  LET S1 == SetState(S, "connectionState", state) IN
  IF state = "connected" THEN
    LET S2 == SetState(S1, "error", NoError)
        S3 == IF S2.engineRef = None /\ S2.clientRef # None
                THEN createEngine(S2, S2.clientRef, S2.closureSessionKey)
                ELSE S2
    IN fetchSessions(S3, c, TRUE)
  ELSE IF state = "disconnected" THEN destroyEngine(S1, "disconnected")
  ELSE S1

\* faulty variant: the cleanup forgets unsubState() and client.disconnect()
connectCleanupKeepsClient(S) ==
  LET S2 == destroyEngine(unsubChat(S), "teardown")
  IN [S2 EXCEPT !.clientRef = None, !.cleanupOf = None]

\* the cleanup returned by the connect effect
connectCleanup(S) ==
  LET c  == S.cleanupOf
      S1 == [S EXCEPT !.clients[c].stateUnsubs = @ + 1]
      S2 == destroyEngine(unsubChat(S1), "teardown")
      S3 == IF S2.clientRef # None
              THEN [disconnect(S2, S2.clientRef) EXCEPT !.clientRef = None]
              ELSE S2
  IN [S3 EXCEPT !.cleanupOf = None]

\* the body of the connect effect, run with the closure fx of its render
connectEffect(S, fx) ==
  IF fx.gatewayUrl = EmptyUrl THEN S
  ELSE
    LET S1 == destroyEngine(unsubChat(S), "connect")
        S2 == IF S1.clientRef # None THEN disconnect(S1, S1.clientRef) ELSE S1
        c  == Len(S2.clients) + 1
        S3 == [S2 EXCEPT
                 !.clients = Append(@, NewClient),
                 !.overflow = @ \/ Len(S2.clients) >= MaxClients,
                 !.clientRef = c]
        S4 == [S3 EXCEPT !.clients[c].stateSubs = @ + 1,
                         !.closureSessionKey = fx.currentSessionKey]
        S5 == SetState(S4, "connectionState", "connecting")
    IN [S5 EXCEPT !.clients[c].connecting = @ + 1, !.cleanupOf = c]

\* faulty variant: the engine of the previous key is kept
sessionEffectKeepsEngine(S, fx) ==
  IF S.clientRef = None \/ fx.connectionState # "connected" THEN S
  ELSE [S EXCEPT !.lastSessionKey = fx.currentSessionKey]

\* the body of the session-change effect, run with the closure fx
sessionEffect(S, fx) ==
  IF S.clientRef = None \/ fx.connectionState # "connected" THEN S
  ELSE
    LET S1 == IF S.engineRef # None
                THEN createEngine(S, S.clientRef, fx.currentSessionKey)
                ELSE S
    IN [S1 EXCEPT !.lastSessionKey = fx.currentSessionKey]

\* reconnect() up to the await
reconnect(S, notify) ==
  LET c  == S.clientRef
      S1 == disconnect(S, c)
      S2 == IF notify /\ StateListening(S1, c)
              THEN onConnectionStateChange(S1, c, "disconnected")
              ELSE S1
      S3 == SetState(S2, "connectionState", "connecting")
  IN [S3 EXCEPT !.clients[c].reconnecting = @ + 1,
                !.overflow = @ \/ S.clients[c].reconnecting >= MaxReconnects]

\* faulty variant: the failure is recorded but the state is left as it was
onConnectFailedKeepsState(S, err) == SetState(S, "error", err)

\* .catch of the connect call, and the catch block of reconnect
onConnectFailed(S, err) ==
  SetState(SetState(S, "error", err), "connectionState", "disconnected")

\* faulty variant: friendlyId is copied without the fallback to the key
NormalizeSessionsNoFallback(resp) ==
  IF resp = <<>> THEN <<>> ELSE
  [i \in 1..Len(resp) |->
     [key |-> resp[i].key, friendlyId |-> resp[i].friendlyId,
      label |-> resp[i].label]]

\* the map of fetchSessions over the records resp: friendlyId is
\* s.friendlyId || s.key, the other fields are copied (label stands for them)
NormalizeSessions(resp) ==
  IF resp = <<>> THEN <<>> ELSE
  [i \in 1..Len(resp) |->
     [key |-> resp[i].key,
      friendlyId |-> IF resp[i].friendlyId # "" THEN resp[i].friendlyId
                     ELSE resp[i].key,
      label |-> resp[i].label]]

\* response.sessions || []
ResponseSessions(response) ==
  IF response.sessions = <<>> THEN <<>> ELSE response.sessions[1]

\* ---- src/unnamed/part_003: the sessions cache ----
\* A JSON text is modelled by its structure: an array is the sequence of its
\* objects, an object the sequence of its <<name, value>> members.
SessionFields == <<"key", "friendlyId", "label">>
IsDefinedIn(descriptor, field) == descriptor[field] # UndefinedField

\* JSON.stringify of a session list: a member whose value is undefined is
\* left out
JSONstringify(list) ==
  IF list = <<>> THEN <<>> ELSE
  [i \in 1..Len(list) |->
     LET names == SelectSeq(SessionFields, LAMBDA f : IsDefinedIn(list[i], f))
     IN [k \in 1..Len(names) |-> <<names[k], list[i][names[k]]>>]]

\* JSON.parse of such a text
JSONparse(json) ==
  IF json = <<>> THEN <<>> ELSE
  [i \in 1..Len(json) |->
     [name \in {json[i][k][1] : k \in 1..Len(json[i])} |->
        json[i][CHOOSE k \in 1..Len(json[i]) : json[i][k][1] = name][2]]]

\* StorageHelpers.setSessionsCache
setSessionsCache(S, list) == [S EXCEPT !.sessionsCache = <<JSONstringify(list)>>]

\* StorageHelpers.getSessionsCache: NoCache is null
getSessionsCache(S) ==
  IF S.sessionsCache = NoCache THEN NoCache
  ELSE <<JSONparse(S.sessionsCache[1])>>

\* fetchSessions after the await resolved with response
onSessionsListed(S, response) ==
  LET sessionList == NormalizeSessions(ResponseSessions(response)) IN
  SetState(setSessionsCache(S, sessionList), "sessions", sessionList)

\* faulty variant: the catch block does not fall back to the cache
onSessionsFailedIgnoresCache(S) == S

\* fetchSessions after the await rejected
onSessionsFailed(S) ==
  LET cached == getSessionsCache(S) IN
  IF cached # NoCache THEN SetState(S, "sessions", cached[1]) ELSE S

\* ---- send, abort, clear, refreshSessions ----

\* A MIME type is the sequence of its parts, "image/png" = <<"image", "/",
\* "png">>; <<>> is an absent (or empty) one.  "" is an absent file name or
\* payload.
ImageSlash == <<"image", "/">>
AudioSlash == <<"audio", "/">>
DefaultMime == <<"image", "/", "jpeg">>
MimeTypes ==
  {<<>>, <<"image", "/", "png">>, <<"audio", "/", "m4a">>,
   <<"application", "/", "pdf">>, <<"image">>}
FileNames == {"", "a.dat"}
Payloads == {"", "QUJD"}
PickedAttachments ==
  [mimeType : MimeTypes, fileName : FileNames, base64 : Payloads]
\* the lists of at most MaxAtts attachments, and no list at all
AttachmentInputs ==
  {Undefined} \cup
  {<<list>> : list \in UNION {[1..n -> PickedAttachments] : n \in 0..MaxAtts}}

\* String.prototype.startsWith
StartsWith(str, prefix) ==
  Len(str) >= Len(prefix) /\ SubSeq(str, 1, Len(prefix)) = prefix

\* faulty variant: the audio case of the extension is missing
ToSDKAttachmentNoAudio(att, i) ==
  LET mimeType == IF att.mimeType # <<>> THEN att.mimeType ELSE DefaultMime
      isImage  == StartsWith(mimeType, ImageSlash)
      ext      == IF isImage THEN "jpg" ELSE "bin"
  IN [id       |-> i,
      fileName |-> IF att.fileName # ""
                     THEN [given |-> att.fileName, index |-> 0, ext |-> ""]
                     ELSE [given |-> "", index |-> i, ext |-> ext],
      mimeType |-> mimeType,
      content  |-> att.base64,
      type     |-> IF isImage THEN "image" ELSE "file"]

\* the callback of attachmentsInput.map, for the element att at index i; a
\* file name is the given one, or `attachment-${i}.${ext}`
ToSDKAttachment(att, i) ==
  LET mimeType == IF att.mimeType # <<>> THEN att.mimeType ELSE DefaultMime
      isImage  == StartsWith(mimeType, ImageSlash)
      ext      == IF StartsWith(mimeType, AudioSlash) THEN "m4a"
                  ELSE IF isImage THEN "jpg" ELSE "bin"
  IN [id       |-> i,
      fileName |-> IF att.fileName # ""
                     THEN [given |-> att.fileName, index |-> 0, ext |-> ""]
                     ELSE [given |-> "", index |-> i, ext |-> ext],
      mimeType |-> mimeType,
      content  |-> att.base64,
      type     |-> IF isImage THEN "image" ELSE "file"]

HasContent(a) == a.content # ""

\* attachmentsInput?.map(...).filter(a => a.content); Undefined stays Undefined
ToSDKAttachments(attachmentsInput) ==
  IF attachmentsInput = Undefined THEN Undefined
  ELSE LET list == attachmentsInput[1] IN
       IF list = <<>> THEN << <<>> >>
       ELSE << SelectSeq([i \in 1..Len(list) |-> ToSDKAttachment(list[i], i - 1)],
                         HasContent) >>

\* faulty variant: without an engine send returns quietly and still schedules
\* the refresh
sendUnguarded(S, attachmentsInput) ==
  IF S.engineRef = None THEN [S EXCEPT !.timers = @ + 1]
  ELSE [S EXCEPT !.engines[S.engineRef].sending = @ + 1,
                 !.handed = <<S.engineRef, ToSDKAttachments(attachmentsInput),
                              attachmentsInput>>,
                 !.overflow = @ \/ S.engines[S.engineRef].sending >= MaxSends]

\* send up to `await engine.send(text, attachments)`; without an engine it
\* throws 'Not connected'
send(S, attachmentsInput) ==
  IF S.engineRef = None THEN [S EXCEPT !.thrown = NotConnected]
  ELSE [S EXCEPT !.engines[S.engineRef].sending = @ + 1,
                 !.handed = <<S.engineRef, ToSDKAttachments(attachmentsInput),
                              attachmentsInput>>,
                 !.overflow = @ \/ S.engines[S.engineRef].sending >= MaxSends]

\* send after the await, once engine.send has resolved: setTimeout(..., 1000)
onSendResolved(S) ==
  [S EXCEPT !.timers = @ + 1, !.overflow = @ \/ S.timers >= MaxSends]

\* faulty variant: the rejection is swallowed and the refresh scheduled anyway
onSendRejectedSwallowed(S, err) ==
  [S EXCEPT !.timers = @ + 1, !.overflow = @ \/ S.timers >= MaxSends]

\* send when engine.send has rejected: there is no try/catch around the await,
\* so send throws the same error and nothing after the await runs
onSendRejected(S, err) == [S EXCEPT !.thrown = err]

\* refreshSessions, and the callback of the timer: fetchSessions()
refreshSessions(S, isConnected) == fetchSessions(S, None, isConnected)

\* clear
clear(S) ==
  IF S.engineRef = None THEN S ELSE SetState(S, "messages", <<>>)

\* ---- the state machine ----
\* lastOp: the operation ("" for those no property singles out), the object
\* it is about, its argument, and the engine it constructed (filled in by
\* Commit)
Op(name, id, arg) == [op |-> name, id |-> id, arg |-> arg, made |-> None]

\* What the effects scheduled by the current render read of its values.
ConnectClosure(url, token) ==
  [effect |-> "connect", gatewayUrl |-> url, authToken |-> token,
   currentSessionKey |-> currentSessionKey]

SessionClosure ==
  [effect |-> "session", connectionState |-> connectionState,
   currentSessionKey |-> currentSessionKey]

Deps(url, token) ==
  [currentSessionKey |-> currentSessionKey, gatewayUrl |-> url,
   authToken |-> token]

\* useChat({gatewayUrl, authToken, sessionKey = 'main'}) rendered for the
\* first time: all cells at their initial value, both effects still to run;
\* cache is what the storage holds of the session list.  The storage module
\* has been loaded: store is what AsyncStorage holds, the in-memory cache is
\* empty and getAllKeys has been issued.
MountedWith(cache, store) ==
  /\ mounted = TRUE
  /\ connectionState = "disconnected"
  /\ isStreaming = FALSE
  /\ error = NoError
  /\ messages = <<>>
  /\ sessions = <<>>
  /\ currentSessionKey = DefaultSessionKey
  /\ \E cfg \in Configs :
       /\ deps = Deps(cfg[1], cfg[2])
       /\ pendingEffects = <<ConnectClosure(cfg[1], cfg[2]), SessionClosure>>
  /\ cleanupOf = None
  /\ closureSessionKey = DefaultSessionKey
  /\ clientRef = None
  /\ engineRef = None
  /\ unsubChatRef = None
  /\ clients = <<>>
  /\ engines = <<>>
  /\ lastSessionKey = ""
  /\ sessionsCache = cache
  /\ timers = 0
  /\ handed = NothingHanded
  /\ midUpdate = <<>>
  /\ titledSessions = {}
  /\ smartTitles = NoTitles
  /\ titleCall = TitleCall("", "", FALSE, NoTitle)
  /\ requested = {}
  /\ smartTitle = NoTitle
  /\ titleDeps = <<DefaultSessionKey, <<>>, <<DefaultSessionKey>>, NoTitle>>
  /\ screenEffects = <<>>
  /\ syncCache = [k \in StorageKeyNames |-> Absent]
  /\ cacheLoaded = FALSE
  /\ asyncStorage = store
  /\ nativeQueue = <<GetAllKeysOp>>
  /\ startupLoad = StartupLoad("getAllKeys", {}, NoPairs)
  /\ lastWrite = [k \in StorageKeyNames |-> Absent]
  /\ writes = 0
  /\ visible = FALSE
  /\ query = <<>>
  /\ isSearching = FALSE
  /\ results = <<>>
  /\ searchAbortRef = None
  /\ historyCache = {}
  /\ searchTimer = Timer(<<>>)
  /\ searches = <<>>
  /\ resultsOf = None
  /\ lastOp = Op("mount", None, "")

Mounted(cache) == MountedWith(cache, NothingPersisted)

\* The first run of the application: nothing is stored.
Init == Mounted(NoCache)

\* A later run: the storage may hold the list an earlier run cached.
PersistedCaches ==
  {NoCache} \cup
  {<<JSONstringify(NormalizeSessions(ResponseSessions(response)))>> :
     response \in ServerResponses}
SessionsInit == \E cache \in PersistedCaches : Mounted(cache)

\* React renders the component again and currentSessionKey has changed.  (A
\* render in which no dependency changed schedules no effect.)
Rerender ==
  /\ mounted /\ pendingEffects = <<>>
  /\ currentSessionKey # deps.currentSessionKey
  /\ Commit([Cur EXCEPT
       !.deps = Deps(deps.gatewayUrl, deps.authToken),
       !.pendingEffects = <<SessionClosure>>],
       Op("", None, ""))

\* The parent renders the hook with another gateway URL or token.
SetConfig(url, token) ==
  /\ mounted /\ pendingEffects = <<>>
  /\ <<url, token>> # <<deps.gatewayUrl, deps.authToken>>
  /\ Commit([Cur EXCEPT
       !.deps = Deps(url, token),
       !.pendingEffects =
          <<ConnectClosure(url, token)>> \o
          (IF currentSessionKey # deps.currentSessionKey
             THEN <<SessionClosure>> ELSE <<>>)],
       Op("", None, ""))

\* React runs the pending effects: the cleanups of the effects that run
\* again first, then the bodies in the order of their declaration.
RECURSIVE RunBodies(_, _)
RunBodies(S, fxs) ==
  IF fxs = <<>> THEN S
  ELSE RunBodies(IF Head(fxs).effect = "connect"
                   THEN connectEffect(S, Head(fxs))
                   ELSE sessionEffect(S, Head(fxs)),
                 Tail(fxs))

RunEffects(S) ==
  LET S1 == IF S.cleanupOf # None /\ Head(S.pendingEffects).effect = "connect"
              THEN connectCleanup(S) ELSE S
  IN [RunBodies(S1, S.pendingEffects) EXCEPT !.pendingEffects = <<>>]

FlushEffects ==
  /\ mounted /\ pendingEffects # <<>>
  /\ Commit(RunEffects(Cur), Op("effects", None, ""))

\* The component unmounts: React runs the registered cleanup.
Unmount ==
  /\ mounted /\ pendingEffects = <<>>
  /\ Commit([(IF cleanupOf # None THEN connectCleanup(Cur) ELSE Cur)
               EXCEPT !.mounted = FALSE],
            Op("", None, ""))

\* The UI calls of the hook come from press handlers; React runs the pending
\* effects before it dispatches such an event.
SwitchSession(newSessionKey) ==
  /\ mounted /\ pendingEffects = <<>>
  /\ newSessionKey # currentSessionKey
  /\ Commit([SetState(Cur, "currentSessionKey", newSessionKey) EXCEPT
               !.requested = IF currentSessionKey = deps.currentSessionKey
                               THEN {newSessionKey}
                               ELSE @ \cup {newSessionKey}],
            Op("switchSession", engineRef, newSessionKey))

Reconnect(notify) ==
  /\ mounted /\ pendingEffects = <<>>
  /\ clientRef # None
  /\ Commit(reconnect(Cur, notify), Op("reconnect", clientRef, ""))

\* The client c changes its state and notifies its listeners; without a
\* listener no code of the hook runs.
Notify(c, state) ==
  /\ c \in 1..Len(clients)
  /\ IF StateListening(Cur, c)
       THEN Commit(onConnectionStateChange(Cur, c, state), Op("notify", c, state))
       ELSE UNCHANGED vars

\* The engine e (destroyed or not) fires 'update' while it holds n messages
\* and its streaming flag is streaming.
EngineUpdate(e, n, streaming) ==
  /\ e \in 1..Len(engines)
  /\ IF UpdListening(Cur, e)
       THEN Commit(onEngineUpdate(Cur, e, n, streaming), Op("engineUpdate", e, ""))
       ELSE UNCHANGED vars

\* The engine e (destroyed or not) fires 'error'.
EngineError(e) ==
  /\ e \in 1..Len(engines)
  /\ IF ErrListening(Cur, e)
       THEN Commit(onEngineError(Cur, e, EngineFailure), Op("engineError", e, ""))
       ELSE UNCHANGED vars

\* The connect() the connect effect issued on client c settles.
ConnectSettled(c, ok) ==
  /\ c \in 1..Len(clients)
  /\ clients[c].connecting > 0
  /\ LET S1 == [Cur EXCEPT !.clients[c].connecting = @ - 1] IN
     Commit(IF ok THEN S1 ELSE onConnectFailed(S1, ConnectError),
            Op("connectSettled", c, IF ok THEN "resolved" ELSE "rejected"))

\* The connect() a reconnect() awaits on client c settles.
ReconnectSettled(c, ok) ==
  /\ c \in 1..Len(clients)
  /\ clients[c].reconnecting > 0
  /\ LET S1 == [Cur EXCEPT !.clients[c].reconnecting = @ - 1] IN
     Commit(IF ok THEN S1 ELSE onConnectFailed(S1, ConnectError),
            Op("reconnectSettled", c, IF ok THEN "resolved" ELSE "rejected"))

\* A sessionsList query on client c settles; fetching tells whether at least
\* one query is in flight, so more of them may remain.
SessionsSettled(c, ok, resp, more) ==
  /\ c \in 1..Len(clients)
  /\ clients[c].fetching
  /\ LET S1 == [Cur EXCEPT !.clients[c].fetching = more] IN
     Commit(IF ok THEN onSessionsListed(S1, resp) ELSE onSessionsFailed(S1),
            Op("sessionsSettled", c, IF ok THEN "resolved" ELSE "rejected"))

\* The engine e emits 'update' while holding n messages; the listener runs
\* up to setMessages and React renders.
EngineUpdateBegins(e, n, streaming) ==
  /\ e \in 1..Len(engines)
  /\ midUpdate = <<>>
  /\ UpdListening(Cur, e)
  /\ Commit(onEngineUpdateFirst(Cur, e, n, streaming), Op("engineUpdate", e, "first"))

\* The listener runs to its end.
EngineUpdateEnds ==
  /\ midUpdate # <<>>
  /\ Commit(onEngineUpdateRest(Cur), Op("engineUpdate", midUpdate[1], "rest"))

\* The UI (or a callback that still holds the function) calls send.
Send(attachmentsInput) ==
  /\ pendingEffects = <<>>
  /\ LET S == send(Cur, attachmentsInput) IN
     Commit(S, Op("send", engineRef, S.thrown))

\* engine.send of the engine e settles; send continues after its await, or
\* rejects with the engine's failure.
SendSettled(e, ok) ==
  /\ e \in 1..Len(engines)
  /\ engines[e].sending > 0
  /\ LET S1 == [Cur EXCEPT !.engines[e].sending = @ - 1]
         S2 == IF ok THEN onSendResolved(S1) ELSE onSendRejected(S1, SendFailure)
     IN Commit(S2, Op("sendSettled", e, IF ok THEN "resolved" ELSE S2.thrown))

\* A timer set by send runs its callback.
TimerFires(isConnected) ==
  /\ timers > 0
  /\ Commit(refreshSessions([Cur EXCEPT !.timers = @ - 1], isConnected),
            Op("timer", clientRef, IF isConnected THEN "isConnected" ELSE ""))

\* The UI calls refreshSessions.
RefreshSessions(isConnected) ==
  /\ pendingEffects = <<>>
  /\ Commit(refreshSessions(Cur, isConnected),
            Op("refreshSessions", clientRef,
               IF isConnected THEN "isConnected" ELSE ""))

\* The UI calls clear.
Clear ==
  /\ pendingEffects = <<>>
  /\ Commit(clear(Cur), Op("clear", engineRef, ""))

\* React's steps: renders, effects, unmount.
ReactNext ==
  \/ Rerender
  \/ \E cfg \in Configs : SetConfig(cfg[1], cfg[2])
  \/ FlushEffects
  \/ Unmount

\* The clients notify their state changes.
NotifyNext ==
  \E c \in 1..MaxClients, state \in ConnectionState : Notify(c, state)

\* The connect() promises settle.
ConnectNext ==
  \/ \E c \in 1..MaxClients, ok \in BOOLEAN : ConnectSettled(c, ok)
  \/ \E c \in 1..MaxClients, ok \in BOOLEAN : ReconnectSettled(c, ok)

\* The sessionsList queries settle.
SessionsNext ==
  \/ \E c \in 1..MaxClients, resp \in ServerResponses, more \in BOOLEAN :
       SessionsSettled(c, TRUE, resp, more)
  \/ \E c \in 1..MaxClients, more \in BOOLEAN :
       SessionsSettled(c, FALSE, [sessions |-> <<>>], more)

\* Engines and their events: sessions are switched, the clients connect and
\* drop, the gateway configuration changes, and every engine constructed so
\* far, destroyed or not, fires update and error events.  The promises stay
\* pending.
Next ==
  \/ ReactNext
  \/ \E k \in SessionKeys : SwitchSession(k)
  \/ NotifyNext
  \/ \E e \in 1..MaxEngines, n \in 1..MaxMsgs : EngineUpdate(e, n, TRUE)
  \/ \E e \in 1..MaxEngines : EngineError(e)

Spec == Init /\ [][Next]_vars

\* Which engines exist: every operation that constructs or destroys an
\* engine (the engines' events write messages, isStreaming and error only).
ControlNext ==
  \/ ReactNext
  \/ \E k \in SessionKeys : SwitchSession(k)
  \/ \E notify \in BOOLEAN : Reconnect(notify)
  \/ NotifyNext

ControlSpec == Init /\ [][ControlNext]_vars

\* Connecting: the connect() of the connect effect and of reconnect() settle
\* while the clients notify and the configuration changes.
ConnectingNext ==
  \/ \E cfg \in Configs : SetConfig(cfg[1], cfg[2])
  \/ FlushEffects
  \/ Unmount
  \/ \E notify \in BOOLEAN : Reconnect(notify)
  \/ NotifyNext
  \/ ConnectNext

ConnectSpec == Init /\ [][ConnectingNext]_vars

\* One configuration for the life of the component: the chat operations.
EngineNext ==
  \/ \E e \in 1..MaxEngines, n \in 1..MaxMsgs : EngineUpdate(e, n, TRUE)
  \/ \E e \in 1..MaxEngines : EngineError(e)

SendNext ==
  \/ Send(Undefined)
  \/ \E e \in 1..MaxEngines, ok \in BOOLEAN : SendSettled(e, ok)
  \/ \E isConnected \in BOOLEAN : TimerFires(isConnected)

ChatNext ==
  \/ FlushEffects
  \/ Unmount
  \/ NotifyNext
  \/ EngineNext
  \/ SendNext
  \/ Clear

ChatSpec == Init /\ [][ChatNext]_vars

\* Update events whose listener React may observe half-way; between the two
\* halves no other code runs (one JavaScript task).
UpdateNext ==
  \/ midUpdate = <<>> /\ (FlushEffects \/ Unmount \/ NotifyNext)
  \/ \E e \in 1..MaxEngines, n \in 0..MaxMsgs, streaming \in BOOLEAN :
       EngineUpdateBegins(e, n, streaming)
  \/ EngineUpdateEnds

UpdateSpec == Init /\ [][UpdateNext]_vars

\* The first send of the component, with any attachments, over a connection
\* that stays up.  (The conversion reads nothing but its argument.)
AttachNext ==
  \/ FlushEffects
  \/ \E c \in 1..MaxClients : Notify(c, "connected")
  \/ \E attachmentsInput \in AttachmentInputs :
       handed = NothingHanded /\ Send(attachmentsInput)
  \/ \E e \in 1..MaxEngines : SendSettled(e, FALSE)

AttachSpec == Init /\ [][AttachNext]_vars

\* ---- src/src/screens/ChatScreen.tsx: the smart-title service ----

\* Array.prototype.join(' ') of texts
RECURSIVE Join(_)
Join(texts) ==
  IF texts = <<>> THEN <<>>
  ELSE IF Len(texts) = 1 THEN texts[1]
  ELSE texts[1] \o <<Space>> \o Join(Tail(texts))

\* extractText: the texts of the text blocks, the empty ones dropped, joined
extractText(content) ==
  LET texts == [i \in 1..Len(content) |->
                  IF content[i].type = "text" THEN content[i].text ELSE <<>>]
  IN Join(SelectSeq(texts, LAMBDA t : t # <<>>))

\* .replace(/\n/g, ' ')
ReplaceNewlines(text) ==
  [i \in 1..Len(text) |-> IF text[i] = Newline THEN Space ELSE text[i]]

\* .replace(/\s+/g, ' ')
RECURSIVE CollapseSpaces(_)
CollapseSpaces(text) ==
  IF Len(text) <= 1 THEN text
  ELSE IF text[1] \in {Space, Newline} /\ text[2] \in {Space, Newline}
    THEN CollapseSpaces(Tail(text))
  ELSE <<IF text[1] = Newline THEN Space ELSE text[1]>>
         \o CollapseSpaces(Tail(text))

\* .trim()
RECURSIVE Trim(_)
Trim(text) ==
  IF text = <<>> THEN text
  ELSE IF Head(text) \in {Space, Newline} THEN Trim(Tail(text))
  ELSE IF text[Len(text)] \in {Space, Newline}
    THEN Trim(SubSeq(text, 1, Len(text) - 1))
  ELSE text

\* String.prototype.lastIndexOf for one character: the index counted from 0,
\* or -1
LastIndexOf(text, ch) ==
  LET at == {i \in 1..Len(text) : text[i] = ch} IN
  IF at = {} THEN -1 ELSE (CHOOSE i \in at : \A j \in at : j <= i) - 1

\* String.prototype.slice(0, end)
Slice(text, end) == SubSeq(text, 1, end)

\* generateFallbackTitle
generateFallbackTitle(msgs) ==
  LET users == SelectSeq(msgs, LAMBDA m : m.role = "user") IN
  IF users = <<>> THEN NewChat ELSE
  LET text == extractText(users[1].content) IN
  IF text = <<>> THEN NewChat ELSE
  LET clean == Trim(CollapseSpaces(ReplaceNewlines(text)))
      cut == Slice(clean, TitleLimit)
      lastSpace == LastIndexOf(cut, Space)
      title == IF Len(clean) > TitleLimit
                 THEN (IF lastSpace > WordCut THEN Slice(cut, lastSpace) ELSE cut)
                        \o Ellipsis
                 ELSE clean
  IN IF title # <<>> THEN title ELSE NewChat

\* StorageHelpers.getSmartTitlesCache: the members of the stored object, none
\* if nothing is stored
getSmartTitlesCache(S) ==
  IF S.smartTitles = NoTitles THEN <<>> ELSE S.smartTitles[1]

\* obj[name]: <<>> if the object has no such member
ObjGet(obj, name) ==
  LET at == {i \in 1..Len(obj) : obj[i][1] = name} IN
  IF at = {} THEN <<>> ELSE <<obj[CHOOSE i \in at : TRUE][2]>>

\* obj[name] = value: a member keeps its place, a new one comes last
ObjPut(obj, name, value) ==
  IF ObjGet(obj, name) = <<>> THEN Append(obj, <<name, value>>)
  ELSE [i \in 1..Len(obj) |->
          IF obj[i][1] = name THEN <<name, value>> ELSE obj[i]]

\* StorageHelpers.getSmartTitle: all[sessionKey] || null
getSmartTitle(S, sessionKey) ==
  LET member == ObjGet(getSmartTitlesCache(S), sessionKey) IN
  IF member = <<>> \/ member[1] = <<>> THEN NoTitle ELSE member

\* StorageHelpers.setSmartTitle
setSmartTitle(S, sessionKey, title) ==
  [S EXCEPT !.smartTitles = <<ObjPut(getSmartTitlesCache(S), sessionKey, title)>>]

\* the last test of needsTitle: a user message and an assistant message with
\* more than 10 characters of text
EnoughMessages(msgs) ==
  LET userMessages == SelectSeq(msgs, LAMBDA m : m.role = "user")
      assistantMessages ==
        SelectSeq(msgs, LAMBDA m : /\ m.role = "assistant"
                                   /\ Len(extractText(m.content)) > MinAssistantText)
  IN Len(userMessages) >= 1 /\ Len(assistantMessages) >= 1

\* the test of needsTitle on existingTitle
HasOwnTitle(sessionKey, existingTitle) ==
  /\ existingTitle # <<>>
  /\ existingTitle # <<sessionKey>>
  /\ ~StartsWith(existingTitle, <<ChatPrefix>>)
  /\ existingTitle # <<"New Chat">>

\* faulty variant: the stored titles are not consulted
needsTitleInMemoryOnly(S, sessionKey, msgs, existingTitle) ==
  LET needed == /\ sessionKey \notin S.titledSessions
                /\ ~HasOwnTitle(sessionKey, existingTitle)
                /\ EnoughMessages(msgs)
  IN [S EXCEPT !.titleCall = TitleCall("needsTitle", sessionKey, needed, NoTitle)]

\* needsTitle; its result is titleCall.needed
needsTitle(S, sessionKey, msgs, existingTitle) ==
  IF sessionKey \in S.titledSessions
    THEN [S EXCEPT !.titleCall = TitleCall("needsTitle", sessionKey, FALSE, NoTitle)]
  ELSE IF getSmartTitle(S, sessionKey) # NoTitle
    THEN [S EXCEPT !.titledSessions = @ \cup {sessionKey},
                   !.titleCall = TitleCall("needsTitle", sessionKey, FALSE, NoTitle)]
  ELSE IF HasOwnTitle(sessionKey, existingTitle)
    THEN [S EXCEPT !.titleCall = TitleCall("needsTitle", sessionKey, FALSE, NoTitle)]
  ELSE [S EXCEPT !.titleCall =
          TitleCall("needsTitle", sessionKey, EnoughMessages(msgs), NoTitle)]

\* generateAndCacheTitle (it awaits nothing); its result is titleCall.title
generateAndCacheTitle(S, sessionKey, msgs) ==
  LET cached == getSmartTitle(S, sessionKey)
      title == generateFallbackTitle(msgs)
  IN IF cached # NoTitle
       THEN [S EXCEPT !.titledSessions = @ \cup {sessionKey},
                      !.titleCall = TitleCall("generateAndCacheTitle", sessionKey,
                                              FALSE, cached)]
       ELSE [setSmartTitle(S, sessionKey, title) EXCEPT
               !.titledSessions = @ \cup {sessionKey},
               !.titleCall = TitleCall("generateAndCacheTitle", sessionKey,
                                       FALSE, <<title>>)]

\* markAsTitled
markAsTitled(S, sessionKey) ==
  [S EXCEPT !.titledSessions = @ \cup {sessionKey},
            !.titleCall = TitleCall("markAsTitled", sessionKey, FALSE, NoTitle)]

\* clearTitledCache
clearTitledCache(S) ==
  [S EXCEPT !.titledSessions = {},
            !.titleCall = TitleCall("clearTitledCache", "", FALSE, NoTitle)]

\* storage.delete(StorageKeys.SMART_TITLES_CACHE): the stored titles are
\* cleared
deleteSmartTitles(S) ==
  [S EXCEPT !.smartTitles = NoTitles,
            !.titleCall = TitleCall("delete", "", FALSE, NoTitle)]

\* A screen, or anything else that imports the service, calls it.
NeedsTitle(sessionKey, msgs, existingTitle) ==
  /\ sessionKey \in TitleKeys
  /\ Commit(needsTitle(Cur, sessionKey, msgs, existingTitle),
            Op("needsTitle", None, ""))

GenerateAndCacheTitle(sessionKey, msgs) ==
  /\ sessionKey \in TitleKeys
  /\ Commit(generateAndCacheTitle(Cur, sessionKey, msgs),
            Op("generateAndCacheTitle", None, ""))

MarkAsTitled(sessionKey) ==
  /\ sessionKey \in TitleKeys
  /\ Commit(markAsTitled(Cur, sessionKey), Op("markAsTitled", None, ""))

\* (clearing an empty set changes nothing)
ClearTitledCache ==
  /\ titledSessions # {}
  /\ Commit(clearTitledCache(Cur), Op("clearTitledCache", None, ""))

\* (deleting what is not stored changes nothing)
DeleteSmartTitles ==
  /\ smartTitles # NoTitles
  /\ Commit(deleteSmartTitles(Cur), Op("delete", None, ""))

\* The smart-title service on its own: it shares no state with the hook.
TitleNext ==
  \/ \E sessionKey \in TitleKeys, msgs \in MessageLists,
        existingTitle \in ExistingTitles :
          NeedsTitle(sessionKey, msgs, existingTitle)
  \/ \E sessionKey \in TitleKeys, msgs \in MessageLists :
          GenerateAndCacheTitle(sessionKey, msgs)
  \/ \E sessionKey \in TitleKeys : MarkAsTitled(sessionKey)
  \/ ClearTitledCache
  \/ DeleteSmartTitles

TitleSpec == Init /\ [][TitleNext]_vars

\* The session list: refreshes are requested, the sessionsList queries settle,
\* the clients connect and drop.
SessionListNext ==
  \/ FlushEffects
  \/ Unmount
  \/ NotifyNext
  \/ \E isConnected \in BOOLEAN : RefreshSessions(isConnected)
  \/ SessionsNext

SessionsSpec == SessionsInit /\ [][SessionListNext]_vars

\* ---- src/unnamed/part_012: EnhancedChatScreen, the smart-title effects ----
\* (On the first render of a first run, with nothing stored and no messages,
\* the screen's effects change nothing; Mounted starts after them.)
ScreenMsgs == 2

\* The messages of a conversation as the screen receives them from the hook:
\* a user message and the assistant's answer in turn, each one text block.
UIMessageOf(message) ==
  UIMessage(IF message[2] % 2 = 1 THEN "user" ELSE "assistant",
            <<TextBlock(TextQuestion)>>)
UIMessages(msgs) ==
  IF msgs = <<>> THEN <<>> ELSE [i \in 1..Len(msgs) |-> UIMessageOf(msgs[i])]

\* A smart title as needsTitle sees it in existingTitle: the texts of the
\* model give titles that are no session key and do not start with 'chat-'.
AsExistingTitle(title) ==
  IF title = NewChat THEN <<"New Chat">> ELSE <<"a smart title">>

\* sessions.find(s => s.key === currentSessionKey): <<>> or <<the session>>
currentSession(S) ==
  LET at == {i \in 1..Len(S.sessions) : S.sessions[i].key = S.currentSessionKey}
  IN IF at = {} THEN <<>>
     ELSE <<S.sessions[CHOOSE i \in at : \A j \in at : i <= j]>>

\* smartTitle || currentSession?.label || ... || currentSessionKey (label
\* stands for label, title and derivedTitle)
sessionTitle(S) ==
  IF S.smartTitle # NoTitle THEN AsExistingTitle(S.smartTitle[1])
  ELSE IF /\ currentSession(S) # <<>>
          /\ "label" \in DOMAIN currentSession(S)[1]
          /\ currentSession(S)[1].label # UndefinedField
    THEN <<currentSession(S)[1].label>>
  ELSE <<S.currentSessionKey>>

\* the dependency array of the smart-title effect
TitleDeps(S) == <<S.currentSessionKey, S.messages, sessionTitle(S), S.smartTitle>>

\* What the screen's effects read of the values of the render they belong to.
TitleClosure(S) ==
  [effect |-> "smartTitle", currentSessionKey |-> S.currentSessionKey,
   messages |-> S.messages, sessionTitle |-> sessionTitle(S),
   smartTitle |-> S.smartTitle]
ResetClosure(S) ==
  [effect |-> "resetTitle", currentSessionKey |-> S.currentSessionKey,
   messages |-> <<>>, sessionTitle |-> <<>>, smartTitle |-> NoTitle]

\* the smart titles effect
smartTitleEffect(S, fx) ==
  LET S1 == needsTitle(S, fx.currentSessionKey, UIMessages(fx.messages),
                       fx.sessionTitle)
  IN IF S1.titleCall.needed
       THEN LET S2 == generateAndCacheTitle(S1, fx.currentSessionKey,
                                            UIMessages(fx.messages))
            IN [S2 EXCEPT !.thens = Append(@, S2.titleCall.title)]
       ELSE LET cached == getSmartTitle(S1, fx.currentSessionKey) IN
            IF cached # NoTitle /\ cached # fx.smartTitle
              THEN SetState(S1, "smartTitle", cached)
              ELSE S1

\* the effect that resets the smart title when the session changes
resetTitleEffect(S, fx) ==
  SetState(S, "smartTitle", getSmartTitle(S, fx.currentSessionKey))

\* .then(title => setSmartTitle(title)) of the promises resolved meanwhile
RECURSIVE RunThens(_)
RunThens(S) ==
  IF S.thens = <<>> THEN S
  ELSE RunThens([SetState(S, "smartTitle", Head(S.thens)) EXCEPT
                   !.thens = Tail(@)])

RECURSIVE RunScreenBodies(_, _)
RunScreenBodies(S, fxs) ==
  IF fxs = <<>> THEN S
  ELSE RunScreenBodies(IF Head(fxs).effect = "smartTitle"
                         THEN smartTitleEffect(S, Head(fxs))
                         ELSE resetTitleEffect(S, Head(fxs)),
                       Tail(fxs))

\* React renders the screen because a dependency of one of these effects has
\* changed: the hook's session effect, the smart-title effect and the reset
\* effect are scheduled, in the order of their declaration.
ScreenRender ==
  /\ mounted /\ pendingEffects = <<>> /\ screenEffects = <<>>
  /\ LET keyChanged == currentSessionKey # deps.currentSessionKey
         depsChanged == TitleDeps(Cur) # titleDeps
     IN /\ keyChanged \/ depsChanged
        /\ Commit([Cur EXCEPT
             !.deps = Deps(deps.gatewayUrl, deps.authToken),
             !.titleDeps = TitleDeps(Cur),
             !.pendingEffects = IF keyChanged THEN <<SessionClosure>> ELSE <<>>,
             !.screenEffects =
                (IF depsChanged THEN <<TitleClosure(Cur)>> ELSE <<>>) \o
                (IF keyChanged THEN <<ResetClosure(Cur)>> ELSE <<>>)],
             Op("", None, ""))

\* React runs the pending effects of the hook, then those of the screen, then
\* the promise callbacks run.
ScreenFlush ==
  /\ mounted /\ (pendingEffects # <<>> \/ screenEffects # <<>>)
  /\ LET S1 == IF pendingEffects # <<>> THEN RunEffects(Cur) ELSE Cur
         S2 == RunScreenBodies(S1, screenEffects)
     IN Commit([RunThens(S2) EXCEPT !.screenEffects = <<>>],
               Op("effects", None, "screen"))

\* The screen over a connection that stays up: the session list arrives,
\* the engines emit updates (none while a switch waits for its effect), the
\* user switches sessions (after the screen has rendered what the hook
\* published and run its effects).
ScreenNext ==
  \/ ScreenRender
  \/ ScreenFlush
  \/ \E c \in 1..MaxClients : Notify(c, "connected")
  \/ \E c \in 1..MaxClients, resp \in ServerResponses :
       SessionsSettled(c, TRUE, resp, FALSE)
  \/ \E e \in 1..MaxEngines, n \in 0..ScreenMsgs :
       /\ screenEffects = <<>> /\ currentSessionKey = deps.currentSessionKey
       /\ EngineUpdate(e, n, FALSE)
  \/ \E k \in SessionKeys :
       /\ screenEffects = <<>> /\ TitleDeps(Cur) = titleDeps
       /\ connectionState = "connected" /\ engineRef # None
       /\ SwitchSession(k)

ScreenSpec == Init /\ [][ScreenNext]_vars

\* Session switches in quick succession, among three keys, while the client
\* connects and drops.
SwitchKeys == SessionKeys \cup {"third"}

SwitchNext ==
  \/ Rerender
  \/ FlushEffects
  \/ NotifyNext
  \/ \E k \in SwitchKeys : SwitchSession(k)

SwitchSpec == Init /\ [][SwitchNext]_vars

\* ---- cold start ----

\* The application is started again: the storage is what the previous run
\* left, everything else is new.  The screen renders
\* useChat({gatewayUrl, authToken, sessionKey: 'main'}) and the hook's
\* useState(sessionKey) takes that argument.
coldStart(S, url, token) ==
  [S EXCEPT
     !.mounted = TRUE,
     !.connectionState = "disconnected",
     !.isStreaming = FALSE,
     !.error = NoError,
     !.messages = <<>>,
     !.sessions = <<>>,
     !.currentSessionKey = DefaultSessionKey,
     !.deps = [currentSessionKey |-> DefaultSessionKey, gatewayUrl |-> url,
               authToken |-> token],
     !.pendingEffects =
        <<[effect |-> "connect", gatewayUrl |-> url, authToken |-> token,
           currentSessionKey |-> DefaultSessionKey],
          [effect |-> "session", connectionState |-> "disconnected",
           currentSessionKey |-> DefaultSessionKey]>>,
     !.cleanupOf = None,
     !.closureSessionKey = DefaultSessionKey,
     !.clientRef = None, !.engineRef = None, !.unsubChatRef = None,
     !.clients = <<>>, !.engines = <<>>,
     !.timers = 0, !.handed = NothingHanded, !.midUpdate = <<>>,
     !.titledSessions = {},
     !.titleCall = TitleCall("", "", FALSE, NoTitle),
     !.requested = {},
     !.smartTitle = NoTitle,
     !.titleDeps = <<DefaultSessionKey, <<>>, <<DefaultSessionKey>>, NoTitle>>,
     !.screenEffects = <<>>]

\* StorageHelpers.getLastSessionKey over the stored value
getLastSessionKey(S) ==
  IF S.lastSessionKey = "" THEN DefaultSessionKey ELSE S.lastSessionKey

ColdStart(url, token) ==
  /\ pendingEffects = <<>>
  /\ Commit(coldStart(Cur, url, token), Op("mount", None, "coldStart"))

\* Sessions are switched while the client connects and drops, and the
\* application is started again.
RestartNext ==
  \/ Rerender
  \/ FlushEffects
  \/ \E k \in SessionKeys : SwitchSession(k)
  \/ NotifyNext
  \/ \E cfg \in Configs : ColdStart(cfg[1], cfg[2])

RestartSpec == Init /\ [][RestartNext]_vars

\* ---- properties ----

EnginesAlive == {e \in DOMAIN engines : ~engines[e].destroyed}
Listening(e) ==
  \/ engines[e].updSubs > engines[e].updUnsubs
  \/ engines[e].errSubs > engines[e].errUnsubs

\* a step that runs the session effect alone, for a render that saw
\* connectionState = 'connected'
SessionEffectRuns ==
  /\ Len(pendingEffects) = 1 /\ pendingEffects' = <<>>
  /\ Head(pendingEffects).effect = "session"
  /\ Head(pendingEffects).connectionState = "connected"

\* C1: over every sequence of connects, connection-state notifications,
\* session switches, reconnects, URL/token changes and teardown, at most one
\* engine is constructed and not yet destroyed; and when a session switch is
\* processed while the hook holds a client and the state is connected before
\* and after, exactly one engine is alive afterwards.
C1_AtMostOneEngineAlive ==
  [][/\ Cardinality(EnginesAlive') <= 1
     /\ (SessionEffectRuns /\ clientRef # None
           /\ connectionState = "connected" /\ connectionState' = "connected")
        => Cardinality(EnginesAlive') = 1]_vars

C1_Witness ==
  /\ lastOp.op = "effects" /\ lastOp.made = 2
  /\ connectionState = "connected"
  /\ engines[1].destroyed /\ EnginesAlive = {2}

\* C2: an engine replaced by a session switch has no update or error listener
\* of the hook left, had none left when it was destroyed, the engine that
\* replaced it was constructed when no engine had a listener of the hook, and
\* no later event of the replaced engine is republished: every step that
\* changes messages, isStreaming or error through an engine event is an event
\* of an engine that was not replaced.
C2_ReplacedEngineIsSilent ==
  [][/\ \A e \in DOMAIN engines' :
          engines'[e].destroyedBy = "createEngine"
            => /\ ~Listening(e)'
               /\ ~engines'[e].subsAtDestroy
               /\ e + 1 \in DOMAIN engines'
               /\ ~engines'[e + 1].subsAtBirth
     /\ (lastOp'.op \in {"engineUpdate", "engineError"}
           /\ <<messages, isStreaming, error>>' # <<messages, isStreaming, error>>)
        => engines[lastOp'.id].destroyedBy # "createEngine"]_vars

C2_Witness ==
  /\ lastOp.op = "engineUpdate" /\ lastOp.id = 2
  /\ engines[1].destroyedBy = "createEngine"
  /\ engines[2].sessionKey # engines[1].sessionKey
  /\ messages = EngineMessages(2, 1)

\* C3: an engine created by the 'connected' notification is bound to the
\* session key the hook currently publishes (the key of the latest
\* switchSession, once rendered and its effects run).
C3_ConnectedEngineHasCurrentKey ==
  (/\ lastOp.op = "notify" /\ lastOp.made # None
   /\ pendingEffects = <<>> /\ deps.currentSessionKey = currentSessionKey)
  => engines[lastOp.made].sessionKey = currentSessionKey

\* C4: when the session effect runs for a switch to another key while the
\* state is connected and an engine is alive, then afterwards the previous
\* engine is destroyed, the only live engine is a new one bound to the new
\* key, messages is empty, isStreaming is false and the persisted last session
\* key is the new key; and while an engine stays the current one, messages and
\* isStreaming change only by an update event of that engine.
C4_SwitchReplacesEngine ==
  [][/\ (SessionEffectRuns /\ clientRef # None /\ engineRef # None)
        => /\ engines'[engineRef].destroyed
           /\ engineRef' \notin DOMAIN engines
           /\ EnginesAlive' = {engineRef'}
           /\ engines'[engineRef'].sessionKey = currentSessionKey
           /\ messages' = <<>> /\ ~isStreaming'
           /\ lastSessionKey' = currentSessionKey
     /\ (engineRef # None /\ engineRef' = engineRef
           /\ <<messages, isStreaming>>' # <<messages, isStreaming>>)
        => (lastOp'.op = "engineUpdate" /\ lastOp'.id = engineRef)]_vars

C4_Witness ==
  /\ lastOp.op = "effects" /\ lastOp.made = 2
  /\ engines[1].destroyedBy = "createEngine" /\ engines[1].sessionKey = "main"
  /\ engineRef = 2 /\ engines[2].sessionKey = "alt"
  /\ currentSessionKey = "alt" /\ lastSessionKey = "alt"
  /\ messages = <<>> /\ ~isStreaming

\* the clients the hook has torn down: constructed and no longer referenced
TornDown == {c \in DOMAIN clients : c # clientRef}

\* C5: after teardown (unmount or URL/token change, also before connect() has
\* settled) no engine of the torn-down client is alive, the client has been
\* disconnected and is not referenced, and an unmounted hook holds neither
\* client nor engine; and every connection-state notification or engine event
\* that changes hook state comes from the client the hook holds, or from an
\* engine of that client.
C5_TeardownReleasesEverything ==
  [][/\ \A c \in TornDown' :
          /\ clients'[c].disconnectCalled
          /\ clients'[c].stateSubs <= clients'[c].stateUnsubs
          /\ \A e \in DOMAIN engines' :
               engines'[e].client = c => engines'[e].destroyed /\ ~Listening(e)'
     /\ (~mounted' \/ clientRef' = None)
        => (clientRef' = None /\ engineRef' = None /\ EnginesAlive' = {})
     /\ (hookState' # hookState /\ lastOp'.op = "notify")
        => lastOp'.id = clientRef
     /\ (hookState' # hookState /\ lastOp'.op \in {"engineUpdate", "engineError"})
        => engines[lastOp'.id].client = clientRef]_vars

C5_Witness ==
  /\ mounted /\ clientRef = 2 /\ pendingEffects = <<>>
  /\ clients[1].disconnectCalled /\ clients[1].connecting > 0
  /\ \E e \in DOMAIN engines : engines[e].client = 1

\* C6: once a client is torn down, the connection-state listener taken on it
\* and the update and error listeners taken on each of its engines have been
\* unsubscribed exactly as often as they were subscribed, whatever disconnects
\* and session switches came before, also when teardown runs before connect()
\* has settled and when one teardown follows another.
C6_SubscriptionsBalanced ==
  \A c \in TornDown :
    /\ clients[c].stateSubs = 1 /\ clients[c].stateUnsubs = 1
    /\ \A e \in DOMAIN engines :
         engines[e].client = c
           => /\ engines[e].updSubs = 1 /\ engines[e].updUnsubs = 1
              /\ engines[e].errSubs = 1 /\ engines[e].errUnsubs = 1

C6_Witness ==
  /\ ~mounted /\ Len(clients) = 2 /\ TornDown = {1, 2}
  /\ clients[2].connecting > 0
  /\ \E e \in DOMAIN engines :
       engines[e].client = 1 /\ engines[e].destroyedBy = "disconnected"

\* C7: an engine destroyed because the client's state became disconnected has
\* lost its listeners: no later update or error event of that engine changes
\* messages, isStreaming or error.
C7_DisconnectedEngineIsSilent ==
  [][(lastOp'.op \in {"engineUpdate", "engineError"}
        /\ engines[lastOp'.id].destroyedBy = "disconnected")
     => UNCHANGED <<messages, isStreaming, error>>]_vars

\* C8: a 'disconnected' notification leaves the hook's client in place and
\* does not disconnect it; an engine created by a later 'connected'
\* notification is a new object, the current one, and the only one alive.
C8_DisconnectKeepsClient ==
  [][/\ (lastOp'.op = "notify" /\ lastOp'.arg = "disconnected")
        => /\ clientRef' = clientRef /\ clientRef = lastOp'.id
           /\ clients' = clients
           /\ EnginesAlive' = {}
     /\ (lastOp'.op = "notify" /\ lastOp'.made # None)
        => /\ lastOp'.arg = "connected"
           /\ lastOp'.made \notin DOMAIN engines
           /\ \A e \in DOMAIN engines : engines'[e].destroyed
           /\ engineRef' = lastOp'.made
           /\ EnginesAlive' = {lastOp'.made}
           /\ engines'[lastOp'.made].client = clientRef']_vars

C8_Witness ==
  /\ lastOp.op = "notify" /\ lastOp.made = 2 /\ lastOp.id = 1
  /\ engines[1].destroyedBy = "disconnected"
  /\ clientRef = 1 /\ ~clients[1].disconnectCalled
  /\ EnginesAlive = {2}

\* C9: when the connect() of the connect effect or of reconnect() rejects, the
\* mounted hook ends with error set to the failure and connectionState
\* 'disconnected'; reconnect() has disconnected the client and set
\* connectionState to 'connecting' when it starts to await connect().
C9_ConnectFailuresAreReported ==
  /\ (lastOp.op \in {"connectSettled", "reconnectSettled"}
        /\ lastOp.arg = "rejected" /\ mounted)
     => (error = ConnectError /\ connectionState = "disconnected")
  /\ lastOp.op = "reconnect"
     => /\ clients[lastOp.id].disconnectCalled
        /\ clients[lastOp.id].reconnecting > 0
        /\ connectionState = "connecting"

C9_Witness ==
  /\ lastOp.op = "reconnectSettled" /\ lastOp.arg = "rejected" /\ mounted
  /\ error = ConnectError /\ connectionState = "disconnected"
  /\ clients[lastOp.id].disconnectCalled

\* C10: whenever the rendered gateway URL is empty and the effects of that
\* render have run, the hook holds no client and connectionState is
\* 'disconnected'.
C10_EmptyUrlIsDisconnected ==
  (mounted /\ pendingEffects = <<>> /\ deps.gatewayUrl = EmptyUrl)
  => (clientRef = None /\ cleanupOf = None /\ connectionState = "disconnected")

\* what a call can change besides lastOp
hookRefs == <<clientRef, engineRef, unsubChatRef, cleanupOf>>
sdkObjects == <<clients, engines>>
storage == <<lastSessionKey, sessionsCache>>

\* C11: a send called while engineRef.current is null throws 'Not connected',
\* calls no engine's send, sets no timer for a session-list refresh, issues no
\* query and leaves messages, isStreaming, error, sessions and connectionState
\* as they were.
C11_SendWithoutEngineRejects ==
  [][(lastOp'.op = "send" /\ engineRef = None)
     => /\ lastOp'.arg = NotConnected
        /\ UNCHANGED <<engines, handed, timers, clients>>
        /\ UNCHANGED hookState]_vars

C11_Witness ==
  /\ lastOp.op = "send" /\ lastOp.arg = NotConnected
  /\ engineRef = None /\ Len(engines) = 1 /\ engines[1].destroyed
  /\ connectionState = "disconnected" /\ messages # <<>>

\* C12: when engine.send settles, send sets the refresh timer if it resolved;
\* if it rejected, send throws that error and sets no timer; in neither case
\* is engine.send called again.  A timer is set by no other step, and
\* engine.send is called only by a call of send, once.
C12_RefreshIffSendResolved ==
  [][/\ lastOp'.op = "sendSettled"
        => /\ lastOp'.arg \in {"resolved", SendFailure}
           /\ (lastOp'.arg = "resolved" => timers' = timers + 1)
           /\ (lastOp'.arg = SendFailure => timers' = timers)
           /\ handed' = handed
           /\ \A e \in DOMAIN engines : engines'[e].sending <= engines[e].sending
     /\ timers' > timers
        => (lastOp'.op = "sendSettled" /\ lastOp'.arg = "resolved")
     /\ (\E e \in DOMAIN engines : engines'[e].sending > engines[e].sending)
        => /\ lastOp'.op = "send" /\ lastOp'.arg = ""
           /\ engines'[engineRef].sending = engines[engineRef].sending + 1
           /\ \A e \in DOMAIN engines :
                e # engineRef => engines'[e].sending = engines[e].sending]_vars

C12_Witness ==
  /\ lastOp.op = "sendSettled" /\ lastOp.arg = SendFailure
  /\ timers = 0 /\ handed # NothingHanded
  /\ \A e \in DOMAIN engines : engines[e].sending = 0

\* the indices of the attachments of list that have a payload, in order
RECURSIVE WithPayload(_, _)
WithPayload(list, i) ==
  IF i > Len(list) THEN <<>>
  ELSE (IF list[i].base64 # "" THEN <<i>> ELSE <<>>) \o WithPayload(list, i + 1)

\* C13: the list handed to engine.send holds, in the order given, one
\* attachment for each given attachment with a non-empty payload, with that
\* payload; one whose MIME type is present is tagged image if the MIME type
\* begins with "image/" and file otherwise (an absent MIME type is sent as
\* image/jpeg and tagged image); a given file name is kept, and a file without
\* one is named with the extension m4a if its MIME type begins with "audio/"
\* and bin otherwise.  No list given: none handed.
C13_AttachmentsClassified ==
  handed # NothingHanded =>
    IF handed[3] = Undefined THEN handed[2] = Undefined
    ELSE LET given == handed[3][1]
             out   == handed[2][1]
             kept  == WithPayload(given, 1)
         IN /\ Len(out) = Len(kept)
            /\ \A k \in 1..Len(out) :
                 LET att == given[kept[k]] IN
                 /\ out[k].content = att.base64 /\ out[k].content # ""
                 /\ att.mimeType # <<>>
                    => /\ out[k].mimeType = att.mimeType
                       /\ out[k].type = "image" <=> StartsWith(att.mimeType, ImageSlash)
                       /\ out[k].type \in {"image", "file"}
                 /\ att.mimeType = <<>>
                    => (out[k].mimeType = DefaultMime /\ out[k].type = "image")
                 /\ att.fileName # "" => out[k].fileName.given = att.fileName
                 /\ (att.fileName = "" /\ out[k].type = "file")
                    => /\ out[k].fileName.given = ""
                       /\ out[k].fileName.index = kept[k] - 1
                       /\ out[k].fileName.ext =
                            IF StartsWith(att.mimeType, AudioSlash) THEN "m4a" ELSE "bin"

C13_Witness ==
  /\ handed # NothingHanded /\ handed[3] # Undefined
  /\ Len(handed[3][1]) = 2 /\ Len(handed[2][1]) = 1
  /\ handed[3][1][1].base64 = ""
  /\ handed[3][1][2].mimeType = <<"audio", "/", "m4a">>
  /\ handed[3][1][2].fileName = ""
  /\ handed[2][1][1].type = "file" /\ handed[2][1][1].fileName.ext = "m4a"

\* C14: after a call of clear on the mounted hook the republished message
\* list is empty, with or without a live engine.
C14_ClearEmptiesMessages ==
  (lastOp.op = "clear" /\ mounted) => messages = <<>>

\* C15: when the update listener of an engine holding n messages with
\* streaming flag f has run (hook mounted), messages is that engine's list of
\* n messages and isStreaming is f; and in the state a render can see between
\* the listener's two setState calls, messages is already the new list, so
\* isStreaming is never ahead of messages.
C15_UpdateSnapshotsEngine ==
  [][/\ (lastOp'.op = "engineUpdate" /\ lastOp'.arg = "first" /\ mounted)
        => /\ messages' = EngineMessages(midUpdate'[1], midUpdate'[2])
           /\ isStreaming' = isStreaming
     /\ (lastOp'.op = "engineUpdate" /\ lastOp'.arg = "rest" /\ mounted)
        => /\ messages' = EngineMessages(midUpdate[1], midUpdate[2])
           /\ isStreaming' = midUpdate[3]
           /\ messages' = messages]_vars

C15_Witness ==
  /\ lastOp.op = "engineUpdate" /\ lastOp.arg = "rest" /\ mounted
  /\ lastOp.id = engineRef /\ engineRef = 2
  /\ messages = EngineMessages(2, 1) /\ isStreaming

\* C16: the error listener of an engine sets the hook's error to the engine's
\* error and changes nothing else: messages, isStreaming, connectionState,
\* sessions, the engine and client references and the SDK objects stay.
C16_EngineErrorSetsOnlyError ==
  [][lastOp'.op = "engineError"
     => /\ mounted => error' = EngineFailure
        /\ UNCHANGED <<messages, isStreaming, connectionState, sessions,
                       currentSessionKey>>
        /\ UNCHANGED <<hookRefs, sdkObjects, storage, timers, handed>>]_vars

C16_Witness ==
  /\ lastOp.op = "engineError" /\ lastOp.id = engineRef
  /\ error = EngineFailure /\ connectionState = "connected"
  /\ messages # <<>> /\ isStreaming

\* Two session lists are the same JSON value: the same descriptors, except that
\* a member that is undefined on one side may be missing on the other.
Member(descriptor, field) ==
  IF field \in DOMAIN descriptor THEN descriptor[field] ELSE UndefinedField
SameJSON(a, b) ==
  /\ Len(a) = Len(b)
  /\ \A i \in 1..Len(a) : \A k \in 1..Len(SessionFields) :
        Member(a[i], SessionFields[k]) = Member(b[i], SessionFields[k])

\* C17: a sessionsList query that resolves publishes, for every response of
\* the server, one descriptor per record of the response in the response's
\* order, with the record's key, the record's friendlyId or else its key, and
\* the record's other fields (none for a response without a list); the cache
\* then reads back as the same list.  After a resolved query the cache is
\* set, the published list of the mounted hook is the one the cache reads
\* back, and no published friendlyId is empty.
C17_SuccessPublishesNormalized ==
  /\ \A c \in DOMAIN clients : \A response \in ServerResponses :
        clients[c].fetching =>
          LET S == onSessionsListed(Cur, response)
              served == IF response.sessions = <<>> THEN <<>>
                        ELSE response.sessions[1]
              expected == [i \in 1..Len(served) |->
                            [key |-> served[i].key,
                             friendlyId |-> IF served[i].friendlyId = ""
                                            THEN served[i].key
                                            ELSE served[i].friendlyId,
                             label |-> served[i].label]]
              cached == getSessionsCache(S)
          IN /\ mounted => /\ Len(S.sessions) = Len(served)
                           /\ \A i \in 1..Len(served) : S.sessions[i] = expected[i]
             /\ ~mounted => S.sessions = sessions
             /\ cached # NoCache
             /\ SameJSON(cached[1], expected)
  /\ (lastOp.op = "sessionsSettled" /\ lastOp.arg = "resolved") =>
        /\ getSessionsCache(Cur) # NoCache
        /\ mounted => /\ SameJSON(sessions, getSessionsCache(Cur)[1])
                      /\ \A i \in 1..Len(sessions) : sessions[i].friendlyId # ""

\* a query has resolved with two records, the second without friendlyId and
\* without label
C17_Witness ==
  /\ lastOp.op = "sessionsSettled" /\ lastOp.arg = "resolved" /\ mounted
  /\ Len(sessions) = 2
  /\ sessions[2].friendlyId = sessions[2].key
  /\ sessions[2].label = UndefinedField
  /\ "label" \notin DOMAIN getSessionsCache(Cur)[1][2]

\* C18: a step in which a sessionsList query rejects leaves the cache and
\* error as they were; the mounted hook then publishes the snapshot the cache
\* holds, as getSessionsCache reads it, if there is one, and otherwise the
\* list stays as it was; a list that was not empty is not empty afterwards.
C18_FailedFetchFallsBackToCache ==
  [][(lastOp'.op = "sessionsSettled" /\ lastOp'.arg = "rejected") =>
       /\ sessionsCache' = sessionsCache
       /\ error' = error
       /\ (sessionsCache # NoCache /\ mounted) =>
             sessions' = JSONparse(sessionsCache[1])
       /\ (sessionsCache = NoCache \/ ~mounted) => sessions' = sessions
       /\ sessions # <<>> => sessions' # <<>>
       /\ UNCHANGED <<messages, isStreaming, connectionState>>]_vars

\* a query has rejected and the mounted hook shows the two cached descriptors,
\* as they were parsed from the cache
C18_Witness ==
  /\ lastOp.op = "sessionsSettled" /\ lastOp.arg = "rejected" /\ mounted
  /\ Len(sessions) = 2
  /\ "label" \notin DOMAIN sessions[2]
  /\ sessions = getSessionsCache(Cur)[1]

\* the client c has a sessionsList query in flight after the step and had none
\* before it
QueryIssued(c) ==
  /\ c \in DOMAIN clients' /\ clients'[c].fetching
  /\ ~(c \in DOMAIN clients /\ clients[c].fetching)

\* C19: a step issues a sessionsList query to a client only if it is a
\* 'connected' notification of that client, or a refresh (requested by the UI
\* or by the timer of send) that found that client in clientRef reporting
\* isConnected; a refresh that finds no client, or a client that does not
\* report isConnected, changes no client, not the published list and not the
\* cache.
C19_QueryOnlyWhenConnected ==
  [][/\ \A c \in 1..MaxClients :
          QueryIssued(c) =>
            \/ /\ lastOp'.op = "notify" /\ lastOp'.id = c
               /\ lastOp'.arg = "connected"
            \/ /\ lastOp'.op \in {"refreshSessions", "timer"}
               /\ lastOp'.arg = "isConnected"
               /\ clientRef = c
     /\ (/\ lastOp'.op \in {"refreshSessions", "timer"}
         /\ (clientRef = None \/ lastOp'.arg # "isConnected")) =>
           /\ clients' = clients
           /\ sessions' = sessions
           /\ sessionsCache' = sessionsCache]_vars

\* a refresh was requested while the client did not report isConnected, and
\* no query is in flight
C19_Witness ==
  /\ lastOp.op = "refreshSessions" /\ lastOp.arg = ""
  /\ mounted /\ clientRef # None
  /\ \A c \in DOMAIN clients : ~clients[c].fetching

\* C20: from a state in which a smart title is stored for a session key,
\* a needsTitle call for that key returns false whatever messages and
\* existing title it is given, a generateAndCacheTitle call for that key
\* returns the stored title, and no step other than the deletion of the
\* stored titles changes the title stored for that key.
C20_CachedTitleSticks ==
  [][\A sessionKey \in TitleKeys :
       getSmartTitle(Cur, sessionKey) # NoTitle =>
         /\ (titleCall'.fn = "needsTitle" /\ titleCall'.sessionKey = sessionKey)
              => ~titleCall'.needed
         /\ (titleCall'.fn = "generateAndCacheTitle"
              /\ titleCall'.sessionKey = sessionKey)
              => titleCall'.title = getSmartTitle(Cur, sessionKey)
         /\ titleCall'.fn # "delete" =>
              getSmartTitle([smartTitles |-> smartTitles'], sessionKey)
                = getSmartTitle(Cur, sessionKey)]_vars

\* needsTitle has just returned false for a key whose title is stored, after
\* the in-memory set was cleared
C20_Witness ==
  /\ titleCall.fn = "needsTitle" /\ ~titleCall.needed
  /\ getSmartTitle(Cur, titleCall.sessionKey) = <<TextQuestion>>
  /\ getSmartTitle(Cur, "alt") =
       <<Slice(Trim(CollapseSpaces(ReplaceNewlines(TextEssay))), 37) \o Ellipsis>>
  /\ titledSessions = {titleCall.sessionKey}

\* C21: after a cold start the hook's current session key is the key the
\* storage holds as the last active one, and 'main' if it holds none.
C21_ColdStartRestoresLastSession ==
  (lastOp.op = "mount" /\ lastOp.arg = "coldStart") =>
     currentSessionKey = getLastSessionKey(Cur)

\* C22: once switchSession has changed the current session key while the
\* hook is connected and has an engine, an update event of that engine,
\* which is bound to the previous key, writes neither messages nor
\* isStreaming.
C22_PreviousEngineIsSilentAfterSwitch ==
  [][(/\ lastOp.op = "switchSession" /\ lastOp.id # None
      /\ connectionState = "connected"
      /\ engines[lastOp.id].sessionKey # currentSessionKey
      /\ lastOp'.op = "engineUpdate" /\ lastOp'.id = lastOp.id)
     => UNCHANGED <<messages, isStreaming>>]_vars

\* C23: when a connect() settles on a client that another client has
\* replaced as the hook's client (the gateway URL or token changed),
\* connectionState and error stay as they were.
C23_SupersededConnectIsIgnored ==
  [][(/\ lastOp'.op \in {"connectSettled", "reconnectSettled"}
      /\ clientRef # None
      /\ lastOp'.id # clientRef)
     => UNCHANGED <<connectionState, error>>]_vars

TitleEffectPending ==
  {i \in 1..Len(screenEffects) : screenEffects[i].effect = "smartTitle"}

\* C25: when a step stores a smart title under a session key, the messages
\* the title is made from were all received from an engine bound to that
\* key, and they hold a user message and an assistant message of more than
\* 10 characters.
C25_TitleFromOwnMessages ==
  [][\A i \in TitleEffectPending :
       LET fx == screenEffects[i] IN
       getSmartTitle([smartTitles |-> smartTitles'], fx.currentSessionKey)
         # getSmartTitle(Cur, fx.currentSessionKey)
       => /\ EnoughMessages(UIMessages(fx.messages))
          /\ \A m \in 1..Len(fx.messages) :
                engines[fx.messages[m][1]].sessionKey = fx.currentSessionKey]_vars

\* C26: while the hook is mounted and no effect is pending, connectionState =
\* 'connected' implies that engineRef holds an engine that is not destroyed,
\* so that send does not throw 'Not connected'.
C26_ConnectedHasEngine ==
  (mounted /\ pendingEffects = <<>> /\ connectionState = "connected") =>
     /\ engineRef # None /\ ~engines[engineRef].destroyed
     /\ send(Cur, Undefined).thrown # NotConnected

\* C27: while the hook is mounted and no engine is alive, the republished
\* isStreaming is false; in particular it does not stay true after the
\* connection drops in the middle of a streaming assistant turn.
C27_NoEngineNoStreaming ==
  [][(/\ mounted /\ lastOp'.op = "notify" /\ lastOp'.arg = "disconnected"
      /\ EnginesAlive' = {})
     => ~isStreaming']_vars

\* The gateway configuration changes while sessionsList queries are in
\* flight: renders with another URL or token, the effects, the clients'
\* notifications and the queries' results.
ReconfigNext ==
  \/ \E cfg \in Configs : SetConfig(cfg[1], cfg[2])
  \/ FlushEffects
  \/ NotifyNext
  \/ SessionsNext

ReconfigSpec == Init /\ [][ReconfigNext]_vars

\* C28: while the hook is mounted, a sessionsList query that settles (resolved
\* or rejected) on a client other than the one clientRef holds changes neither
\* the republished session list nor the session-list cache.
C28_SupersededSessionsAreIgnored ==
  [][(/\ mounted /\ lastOp'.op = "sessionsSettled"
      /\ clientRef # None /\ lastOp'.id # clientRef)
     => UNCHANGED <<sessions, sessionsCache>>]_vars

\* String(value)
String(value) == value.text

\* storage.getString(key): string | undefined
getString(S, key) == S.syncCache[key]

\* storage.set(key, value)
set(S, key, value) ==
  LET strValue == String(value) IN
  [S EXCEPT !.syncCache[key] = Stored(strValue),
            !.nativeQueue = Append(@, NativeOp("setItem", key, strValue, {}))]

\* storage.delete(key)
delete(S, key) ==
  [S EXCEPT !.syncCache[key] = Absent,
            !.nativeQueue = Append(@, NativeOp("removeItem", key, "", {}))]

\* AsyncStorage executes the operation op; a failed setItem or removeItem is
\* swallowed by its .catch(() => {}).
executeNative(S, op, ok) ==
  CASE op.op = "setItem" ->
         IF ok THEN [S EXCEPT !.asyncStorage[op.key] = Stored(op.value)] ELSE S
    [] op.op = "removeItem" ->
         IF ok THEN [S EXCEPT !.asyncStorage[op.key] = Absent] ELSE S
    [] op.op = "getAllKeys" ->
         IF ok
           THEN [S EXCEPT !.startupLoad =
                   StartupLoad("keys",
                     {k \in StorageKeyNames : S.asyncStorage[k] # Absent}, NoPairs)]
           ELSE [S EXCEPT !.startupLoad = StartupLoad("rejected", {}, NoPairs)]
    [] OTHER ->
         IF ok
           THEN [S EXCEPT !.startupLoad =
                   StartupLoad("pairs", op.keys,
                     [k \in StorageKeyNames |->
                        IF k \in op.keys THEN S.asyncStorage[k] ELSE Absent])]
           ELSE [S EXCEPT !.startupLoad = StartupLoad("rejected", {}, NoPairs)]

\* The callbacks of the startup load: .then(async keys => ...) up to its
\* await, its continuation after the await, and .catch.
loadContinues(S) ==
  LET load == S.startupLoad
      loaded == StartupLoad("loaded", {}, NoPairs) IN
  CASE load.step = "keys" ->
         IF load.keys # {}
           THEN [S EXCEPT
                  !.nativeQueue = Append(@, NativeOp("multiGet", "", "", load.keys)),
                  !.startupLoad = StartupLoad("multiGet", load.keys, NoPairs)]
           ELSE [S EXCEPT !.cacheLoaded = TRUE, !.startupLoad = loaded]
    [] load.step = "pairs" ->
         [S EXCEPT
            !.syncCache = [k \in StorageKeyNames |->
                             IF k \in load.keys /\ load.pairs[k] # Absent
                               THEN load.pairs[k] ELSE @[k]],
            !.cacheLoaded = TRUE, !.startupLoad = loaded]
    [] OTHER -> [S EXCEPT !.cacheLoaded = TRUE, !.startupLoad = loaded]

\* The application calls storage.set.
StorageSet(key, value) ==
  /\ writes < MaxWrites
  /\ Commit([set(Cur, key, value) EXCEPT
               !.lastWrite[key] = Stored(String(value)), !.writes = @ + 1],
            Op("set", None, key))

\* The application calls storage.delete.
StorageDelete(key) ==
  /\ writes < MaxWrites
  /\ Commit([delete(Cur, key) EXCEPT
               !.lastWrite[key] = Absent, !.writes = @ + 1],
            Op("delete", None, key))

\* AsyncStorage executes the oldest operation it was handed.
NativeRuns(ok) ==
  /\ nativeQueue # <<>>
  /\ Commit(executeNative([Cur EXCEPT !.nativeQueue = Tail(@)],
                          Head(nativeQueue), ok),
            Op("native", None, Head(nativeQueue).op))

\* A promise of the startup load has settled and its callback runs.
LoadContinues ==
  /\ startupLoad.step \in {"keys", "pairs", "rejected"}
  /\ Commit(loadContinues(Cur), Op("load", None, startupLoad.step))

\* The storage from the loading of the module on: the application reads and
\* writes while the startup load is under way and after it.
StorageNext ==
  \/ \E k \in StorageKeyNames, value \in SetValues : StorageSet(k, value)
  \/ \E k \in StorageKeyNames : StorageDelete(k)
  \/ \E ok \in BOOLEAN : NativeRuns(ok)
  \/ LoadContinues

StorageInit == \E store \in PersistedStores : MountedWith(NoCache, store)

StorageSpec == StorageInit /\ [][StorageNext]_vars

\* C29: for every key k, after storage.set(k, v) and until the next set or
\* delete of k, storage.getString(k) returns String(v), whether or not the
\* startup load has completed.
C29_SetIsReadBack ==
  \A k \in StorageKeyNames :
     lastWrite[k] # Absent => getString(Cur, k) = lastWrite[k]

\* ---- src/unnamed/part_008: GlobalSearchModal ----
\* String.prototype.toLowerCase over the characters the texts use
toLowerCase(text) ==
  [i \in 1..Len(text) |->
     CASE text[i] = "T" -> "t" [] text[i] = "L" -> "l" [] text[i] = "A" -> "a"
       [] text[i] = "N" -> "n" [] text[i] = "C" -> "c" [] OTHER -> text[i]]

\* String.prototype.indexOf: the index counted from 0, or -1
indexOf(text, part) ==
  LET at == {i \in 1..(Len(text) - Len(part) + 1) :
               SubSeq(text, i, i + Len(part) - 1) = part} IN
  IF at = {} THEN -1 ELSE (CHOOSE i \in at : \A j \in at : i <= j) - 1

\* extractTextFromContent
extractTextFromContent(content) ==
  LET texts == [i \in 1..Len(content) |->
                  IF content[i].type = "text" THEN content[i].text ELSE <<>>]
  IN Join(SelectSeq(texts, LAMBDA t : t # <<>>))

\* session.label || session.title || session.derivedTitle || session.friendlyId
\* (the sessions of useChat carry no title and no derivedTitle)
SearchSessionTitle(session) ==
  IF session.label \notin {UndefinedField, ""}
    THEN session.label ELSE session.friendlyId

\* The inner loop of performSearch: the results in the messages of a session
RECURSIVE MatchesFrom(_, _, _, _)
MatchesFrom(session, history, searchQuery, msgIndex) ==
  IF msgIndex > Len(history) THEN <<>>
  ELSE
    LET message == history[msgIndex]
        text == extractTextFromContent(message.content)
        matchIndex == indexOf(toLowerCase(text), toLowerCase(searchQuery))
        rest == MatchesFrom(session, history, searchQuery, msgIndex + 1)
    IN IF text = <<>> \/ matchIndex = -1 THEN rest
       ELSE <<[sessionKey |-> session.key,
               sessionTitle |-> SearchSessionTitle(session),
               messageIndex |-> msgIndex - 1,
               messageRole |-> message.role,
               matchStart |-> matchIndex,
               matchEnd |-> matchIndex + Len(searchQuery)]>> \o rest

\* sectionsMap after the messages of a session have been searched
searchMessages(S, id, session, history) ==
  LET data == MatchesFrom(session, history, S.searches[id].query, 1) IN
  IF data = <<>> THEN S
  ELSE [S EXCEPT !.searches[id].sectionsMap =
          Append(@, [sessionKey |-> session.key,
                     sessionTitle |-> data[1].sessionTitle, data |-> data])]

\* .sort((a, b) => b.data.length - a.data.length): stable, more matches first
RECURSIVE SortSections(_)
SortSections(sections) ==
  IF sections = <<>> THEN <<>>
  ELSE
    LET most == CHOOSE i \in 1..Len(sections) :
                  /\ \A j \in 1..Len(sections) :
                        Len(sections[j].data) <= Len(sections[i].data)
                  /\ \A j \in 1..(i - 1) :
                        Len(sections[j].data) < Len(sections[i].data)
    IN <<sections[most]>> \o
       SortSections(SubSeq(sections, 1, most - 1)
                    \o SubSeq(sections, most + 1, Len(sections)))

\* performSearch after its loop: the sections are published and isSearching
\* is reset unless the search's controller is aborted.
searchEnds(S, id) ==
  LET sections == SortSections(S.searches[id].sectionsMap)
      S1 == [S EXCEPT !.searches[id].awaiting = 0] IN
  IF S.searches[id].aborted THEN S1
  ELSE [S1 EXCEPT !.results = sections, !.resultsOf = id,
                  !.isSearching = FALSE]

\* The loop of performSearch from the session i on, up to its next await
RECURSIVE searchLoop(_, _, _)
searchLoop(S, id, i) ==
  IF i > Len(SearchSessions) \/ S.searches[id].aborted
    THEN searchEnds(S, id)
  ELSE IF SearchSessions[i].key \in S.historyCache
    THEN searchLoop(searchMessages(S, id, SearchSessions[i],
                                   HistoryOf(SearchSessions[i].key)), id, i + 1)
  ELSE [S EXCEPT !.searches[id].awaiting = i]

\* performSearch(searchQuery) up to its first await; isConnected is what
\* client.isConnected answers.
performSearch(S, searchQuery, isConnected) ==
  IF Trim(searchQuery) = <<>> \/ ~isConnected
    THEN [S EXCEPT !.results = <<>>, !.resultsOf = None]
  ELSE IF Len(S.searches) >= MaxSearches
    THEN [S EXCEPT !.overflow = TRUE]
  ELSE
    LET id == Len(S.searches) + 1
        S1 == IF S.searchAbortRef # None
                THEN [S EXCEPT !.searches[S.searchAbortRef].aborted = TRUE]
                ELSE S
        S2 == [S1 EXCEPT !.searches = Append(@, Search(searchQuery)),
                         !.searchAbortRef = id,
                         !.isSearching = TRUE]
    IN searchLoop(S2, id, 1)

\* client.chatHistory awaited by the search id settles: performSearch goes on
\* after the await, or skips the session.
onHistorySettled(S, id, ok) ==
  LET i == S.searches[id].awaiting
      session == SearchSessions[i] IN
  IF ok
    THEN searchLoop(searchMessages(
                      [S EXCEPT !.historyCache = @ \cup {session.key}],
                      id, session, HistoryOf(session.key)), id, i + 1)
    ELSE searchLoop(S, id, i + 1)

\* The effect of [visible] when the modal opens; setQuery('') makes the
\* debounce effect run again when the query was not empty.
onOpened(S) ==
  [S EXCEPT !.query = <<>>, !.results = <<>>, !.resultsOf = None,
            !.searchTimer = IF S.query # <<>> THEN Timer(<<>>) ELSE @]

\* The effect of [visible] when the modal closes
onClosed(S) ==
  IF S.searchAbortRef # None
    THEN [S EXCEPT !.searches[S.searchAbortRef].aborted = TRUE]
    ELSE S

\* The callback of the debounce timer
onSearchTimer(S, isConnected) ==
  LET closureQuery == S.searchTimer[1]
      S1 == [S EXCEPT !.searchTimer = NoTimer] IN
  IF Len(Trim(closureQuery)) >= MinQuery
    THEN performSearch(S1, closureQuery, isConnected)
    ELSE [S1 EXCEPT !.results = <<>>, !.resultsOf = None]

\* The screen shows the modal, and the effect of [visible] runs.
OpenModal ==
  /\ ~visible
  /\ Commit(onOpened([Cur EXCEPT !.visible = TRUE]), Op("open", None, ""))

\* The screen hides the modal, and the effect of [visible] runs.
CloseModal ==
  /\ visible
  /\ Commit(onClosed([Cur EXCEPT !.visible = FALSE]), Op("close", None, ""))

\* The user edits the text: setQuery, and the debounce effect clears the
\* timer and sets a new one.
TypeQuery(text) ==
  /\ visible /\ text # query
  /\ Commit([Cur EXCEPT !.query = text, !.searchTimer = Timer(text)],
            Op("setQuery", None, ""))

\* The debounce timer fires.
SearchTimerFires(isConnected) ==
  /\ searchTimer # NoTimer
  /\ Commit(onSearchTimer(Cur, isConnected),
            Op("searchTimer", None, IF isConnected THEN "isConnected" ELSE ""))

\* The chatHistory query the search id awaits settles.
HistorySettled(id, ok) ==
  /\ id \in 1..Len(searches)
  /\ searches[id].awaiting # 0
  /\ Commit(onHistorySettled(Cur, id, ok),
            Op("historySettled", id, IF ok THEN "resolved" ELSE "rejected"))

\* The global search modal: it is opened and closed, the user types, the
\* debounce timer fires and the history queries settle.
SearchNext ==
  \/ OpenModal
  \/ CloseModal
  \/ \E text \in SearchQueries : TypeQuery(text)
  \/ \E isConnected \in BOOLEAN : SearchTimerFires(isConnected)
  \/ \E id \in 1..MaxSearches, ok \in BOOLEAN : HistorySettled(id, ok)

SearchSpec == Init /\ [][SearchNext]_vars

\* No performSearch call is still executing.
NoSearchRunning == \A id \in DOMAIN searches : searches[id].awaiting = 0

\* C30: a search that publishes its sections is the most recently started
\* one, and in every state in which every started search has returned
\* (completed or aborted, also by closing the modal) isSearching is false.
C30_SearchResultsAndIdle ==
  /\ [](NoSearchRunning => ~isSearching)
  /\ [][(resultsOf' # resultsOf /\ resultsOf' # None)
         => resultsOf' = Len(searches')]_vars

====
